---- MODULE Spec2Model ----
(***************************************************************************)
(* Model of the interview session controller (src/src/agent.py), of the   *)
(* transcript aggregator (src/src/transcription_handler.py) and of the    *)
(* cloud recording manager (src/src/cloud_recording_manager.py).          *)
(*                                                                         *)
(* The program runs on one asyncio event loop: a coroutine runs without   *)
(* interruption from one await to the next.  Every action below is one    *)
(* such run: it starts where a coroutine is resumed (a collaborator call  *)
(* returns or raises, a timer fires, a task is started, an event handler  *)
(* is called) and ends at the next await the code reaches.                *)
(*                                                                         *)
(* Time is counted in seconds.  asyncio.sleep(d) resumes its caller when  *)
(* the clock shows the instant of the call plus d; the clock does not     *)
(* pass an instant at which a sleeper is due.                             *)
(***************************************************************************)
EXTENDS Integers, Sequences, FiniteSets, TLC

\* ------------------------------------------------------------------ bounds

\* interview_duration, in minutes (a constructor argument of InterviewAgent)
InterviewDuration == 1
\* the latest instant at which the clock still advances before start_time is set
MaxSetupDelay == 1
\* the number of cleanup tasks the room's event handlers spawn
MaxTasks == 1
\* the number of events given to on_transcript
MaxEvents == 3
\* the number of event objects of any shape given to on_transcript
MaxRawEvents == 2
\* the number of entries of a transcript that is read or saved
MaxEntries == 2
\* the number of get_full_transcript and save_formatted_transcript calls
MaxReads == 2
\* the number of start_recording and stop_recording calls on one manager
MaxCalls == 4
\* the length of an event's text, in characters
MaxTextLen == 1
MaxMessages == 1
MaxTracks == 1
MaxJobs == 2
MaxItems == 1
MaxUtterances == 1

\* ------------------------------------------------------- program constants

\* asyncio.sleep(30) of the duration monitor
PollInterval == 30
\* asyncio.sleep(3) after the closing message
GraceSleep == 3
\* asyncio.sleep(2) after the recording stop
FinalizeSleep == 2
\* asyncio.sleep(2) after the INTERVIEW_ENDED packet
DeliverSleep == 2

\* max_duration_seconds = self.interview_duration * 60
max_duration_seconds == InterviewDuration * 60

\* the clock stops here: later than every timer a session can set
Horizon ==
    MaxSetupDelay + max_duration_seconds + PollInterval
        + GraceSleep + FinalizeSleep + DeliverSleep + 1

\* the value of an unset start_time / timer (Python None)
NoTime == 0 - 1
\* the value of an unset egress_id / download_url (Python None)
NoValue == "none"

\* runner 0 is the handle_cleanup call of start_interview's finally clause;
\* runners 1..MaxTasks are the tasks spawned by the room's event handlers
Runners == 0 .. MaxTasks

VARIABLES
    now,            \* the clock
    pc,             \* where start_interview is suspended
    exc,            \* an exception is propagating out of start_interview
    start_time,     \* self.start_time
    recorder,       \* self.recorder is set
    transcription,  \* self.transcription is set
    session,        \* self.session is set
    egress_id,      \* self.recorder.egress_id
    is_cleaning_up, \* self.is_cleaning_up
    mwake,          \* the instant the monitor's pending sleep ends
    connected,      \* the room is connected
    local_participant, \* ctx.room.local_participant exists
    handlers,       \* data_received / participant_disconnected are registered
    cpc,            \* where each handle_cleanup invocation is suspended
    cwake,          \* the instant each invocation's pending sleep ends
    egress,         \* what each invocation's stop_recording is about to return
    download_url,   \* the local download_url of each invocation
    log,            \* the collaborator calls made, in order
    extEarly,       \* a cleanup trigger arrived while the monitor ran, budget left
    polledAfter,    \* the monitor polled after a spawned cleanup called disconnect
    detectedAt,     \* the instant of the poll that found elapsed >= budget
    missedPoll,     \* a poll with elapsed >= budget did not find it
    transcript,     \* TranscriptionHandler.transcript
    events,         \* the events given to on_transcript so far
    engine,         \* the events the conversational engine has emitted so far
    tasks,          \* the on_transcript tasks the session's handlers created
    raw,            \* the event objects of any shape given to on_transcript
    outcomes,       \* how each of these calls ended
    stored,         \* the put_object calls made, in order
    reads,          \* the get_full_transcript / save_formatted_transcript calls
    rpc,            \* where the call on the recording manager is suspended
    api_closed,     \* self.livekit_api has been closed
    result,         \* what the stop_recording in progress is about to return
    requests,       \* the requests made to the LiveKit API client, in order
    returns,        \* the calls on the recording manager that are over
    tracing,        \* the room's events are remembered for the claims
    received,       \* the room's events the handlers were given, in order
    tracks,         \* the remote track publications and their subscription
    jobs,           \* the jobs entrypoint was given, and what it made of them
    report,         \* the evaluation that was rendered, with its report
    settings        \* the Config class that was loaded, and what was asked of it

\* what the claims remember of the run; the program does not read them
ghostVars == <<extEarly, polledAfter, detectedAt, missedPoll>>
lifeVars ==
    <<now, pc, exc, start_time, recorder, transcription, session, egress_id,
      is_cleaning_up, mwake, connected, local_participant, handlers, cpc,
      cwake, egress, download_url, log, ghostVars>>
sessionVars == <<engine, tasks>>
rawVars == <<raw, outcomes>>
storeVars == <<stored, reads>>
textVars == <<transcript, events, sessionVars, rawVars, storeVars>>
managerVars == <<rpc, api_closed, result, requests, returns>>
roomVars == <<tracing, received, tracks>>
utilVars == <<jobs, report, settings>>
vars == <<lifeVars, textVars, managerVars, roomVars, utilVars>>

\* ------------------------------------------------------------------ the log

\* one collaborator call: who made it, which call, with what argument
Entry(r, o, a) == [by |-> r, op |-> o, arg |-> a]

Count(o) == Cardinality({i \in 1 .. Len(log) : log[i].op = o})
CountBy(r, o) ==
    Cardinality({i \in 1 .. Len(log) : log[i].op = o /\ log[i].by = r})
TeardownOps == {"stop", "publish", "save", "disconnect"}

\* ------------------------------------------------- InterviewAgent.__init__

InitLife ==
    /\ now = 0
    /\ pc = "construct"
    /\ exc = FALSE
    /\ start_time = NoTime
    /\ recorder = FALSE
    /\ transcription = FALSE
    /\ session = FALSE
    /\ egress_id = NoValue
    /\ is_cleaning_up = FALSE
    /\ mwake = NoTime
    /\ connected = FALSE
    /\ local_participant = FALSE
    /\ handlers = FALSE
    /\ cpc = [r \in Runners |-> "idle"]
    /\ cwake = [r \in Runners |-> NoTime]
    /\ egress = [r \in Runners |-> NoValue]
    /\ download_url = [r \in Runners |-> NoValue]
    /\ log = <<>>
    /\ extEarly = FALSE
    /\ polledAfter = FALSE
    /\ detectedAt = NoTime
    /\ missedPoll = FALSE
    /\ rpc = "idle"
    /\ api_closed = FALSE
    /\ result = NoValue
    /\ requests = <<>>
    /\ returns = <<>>
    /\ received = <<>>
    /\ jobs = <<>>
    /\ report = <<>>
    /\ settings = <<>>

\* ------------------------------------------- InterviewAgent.handle_cleanup

\* what save_formatted_transcript can end with: the key after an upload, None
\* after a failed one (the two except clauses) or without S3 credentials
SaveOutcomes == {"uploaded", "failed", "skipped"}

\* what stop_egress can end with: an egress whose first file has a download
\* url, one whose first file has none, one without file results, an exception
StopOutcomes == {"with_url", "no_url", "no_files", "fail"}

\* a guard that lets every caller through
GuardNeverBlocks(flag) == FALSE

\* `if self.is_cleaning_up: return`
GuardBlocks(flag) == flag

\* where start_interview is once its finally clause has called handle_cleanup:
\* still inside it, or out of start_interview (normally or by exception)
FinallyPc(c, e) ==
    IF c = "returned" THEN (IF e THEN "raised" ELSE "done")
    ELSE IF c = "raised" THEN "raised"
    ELSE "cleanup"

\* a body that goes to room.disconnect without saving the transcript
DisconnectWithoutSave(r, lg, so) ==
    /\ log' = lg \o <<Entry(r, "disconnect", NoValue)>>
    /\ cpc' = [cpc EXCEPT ![r] = "disconnecting"]
    /\ cwake' = [cwake EXCEPT ![r] = NoTime]

\* a tag that never carries the recording's identifier
NoRecordingTag == NoValue

\* `egress_id = self.recorder.egress_id if self.recorder else None`
RecordingTag == IF recorder THEN egress_id ELSE NoValue

\* save the transcript if there is one, then call room.disconnect
SaveAndDisconnect(r, lg, so) ==
    /\ log' = lg
            \o (IF transcription
                THEN <<Entry(r, "save", RecordingTag), Entry(r, "save_result", so)>>
                ELSE <<>>)
            \o <<Entry(r, "disconnect", NoValue)>>
    /\ cpc' = [cpc EXCEPT ![r] = "disconnecting"]
    /\ cwake' = [cwake EXCEPT ![r] = NoTime]

\* the payload json.dumps is given; the message text is left out
InterviewEnded(url) ==
    [type |-> "INTERVIEW_ENDED", status |-> "completed",
     room_id |-> "room_id", recording_url |-> url]

\* `await ctx.room.local_participant.publish_data(payload, topic=...)`
PublishData(r, url) ==
    [by |-> r, op |-> "publish", arg |-> url, topic |-> "interview_status",
     payload |-> InterviewEnded(url)]

\* build the INTERVIEW_ENDED payload and publish it if there is a local
\* participant; without one go on to the transcript
PublishStage(r, lg, url, so) ==
    IF local_participant
    THEN /\ log' = lg \o <<PublishData(r, url)>>
         /\ cpc' = [cpc EXCEPT ![r] = "publishing"]
         /\ cwake' = [cwake EXCEPT ![r] = NoTime]
    ELSE SaveAndDisconnect(r, lg, so)

\* the teardown body up to its first await
Body(r, lg, so) ==
    IF recorder
    THEN IF egress_id = NoValue
         THEN \* stop_recording returns None at once; sleep(2)
              /\ log' = lg
              /\ cpc' = [cpc EXCEPT ![r] = "rec_sleep"]
              /\ cwake' = [cwake EXCEPT ![r] = now + FinalizeSleep]
         ELSE \* await stop_egress
              /\ log' = lg \o <<Entry(r, "stop", egress_id)>>
              /\ cpc' = [cpc EXCEPT ![r] = "stopping"]
              /\ cwake' = cwake
    ELSE PublishStage(r, lg, NoValue, so)

\* a call of handle_cleanup, up to its first await
Enter(r, lg, so) ==
    IF GuardBlocks(is_cleaning_up)
    THEN /\ cpc' = [cpc EXCEPT ![r] = "returned"]
         /\ log' = lg
         /\ UNCHANGED <<is_cleaning_up, cwake>>
    ELSE /\ is_cleaning_up' = TRUE
         /\ Body(r, lg \o <<Entry(r, "body", NoValue)>>, so)

\* start_interview moves only with runner 0
MainFollows(r, e) ==
    pc' = IF r = 0 THEN FinallyPc(cpc'[r], e) ELSE pc

\* a spawned task starts running handle_cleanup; the event loop starts the
\* tasks in the order of their creation
TaskStart(r) ==
    /\ r # 0
    /\ cpc[r] = "ready"
    /\ \A q \in 1 .. (r - 1) : cpc[q] # "ready"
    /\ \E so \in SaveOutcomes : Enter(r, log, so)
    /\ UNCHANGED <<now, pc, exc, start_time, recorder, transcription, session,
                   egress_id, mwake, connected, local_participant, handlers,
                   egress, download_url>>
    /\ UNCHANGED ghostVars
    /\ UNCHANGED <<textVars, managerVars, utilVars>>
    /\ UNCHANGED roomVars

\* stop_egress returns or raises; stop_recording's finally awaits aclose
StopReturns(r) ==
    /\ cpc[r] = "stopping"
    /\ \E out \in StopOutcomes :
        /\ egress' = [egress EXCEPT ![r] = IF out = "fail" THEN NoValue ELSE out]
        /\ log' = log
                \o (IF out = "fail" THEN <<Entry(r, "stop_failed", NoValue)>>
                    ELSE <<>>)
                \o <<Entry(r, "aclose", NoValue)>>
    /\ cpc' = [cpc EXCEPT ![r] = "closing"]
    /\ UNCHANGED <<now, pc, exc, start_time, recorder, transcription, session,
                   egress_id, is_cleaning_up, mwake, connected,
                   local_participant, handlers, cwake, download_url>>
    /\ UNCHANGED ghostVars
    /\ UNCHANGED <<textVars, managerVars, utilVars>>
    /\ UNCHANGED roomVars

\* a url for whatever stop_recording came back with
AnyDownloadUrl(eg, ok) == "url"

\* `if egress: if egress.file_results and len(...) > 0: download_url =
\* egress.file_results[0].download_url`; None when stop_recording raised
FirstDownloadUrl(eg, ok) == IF ok /\ eg = "with_url" THEN "url" ELSE NoValue

\* aclose returns: stop_recording returns the egress (None after a failed
\* stop) and handle_cleanup reads its first file's download url; aclose
\* raises: the exception leaves stop_recording and handle_cleanup catches it.
\* Then sleep(2).
CloseReturns(r) ==
    /\ cpc[r] = "closing"
    /\ \E ok \in BOOLEAN :
        /\ download_url' =
              [download_url EXCEPT ![r] = FirstDownloadUrl(egress[r], ok)]
        /\ log' = IF ok THEN log
                  ELSE log \o <<Entry(r, "aclose_failed", NoValue)>>
    /\ egress' = [egress EXCEPT ![r] = NoValue]
    /\ cpc' = [cpc EXCEPT ![r] = "rec_sleep"]
    /\ cwake' = [cwake EXCEPT ![r] = now + FinalizeSleep]
    /\ UNCHANGED <<now, pc, exc, start_time, recorder, transcription, session,
                   egress_id, is_cleaning_up, mwake, connected,
                   local_participant, handlers>>
    /\ UNCHANGED ghostVars
    /\ UNCHANGED <<textVars, managerVars, utilVars>>
    /\ UNCHANGED roomVars

\* the sleep after the recording stop ends: the notification
RecSleepEnds(r) ==
    /\ cpc[r] = "rec_sleep"
    /\ now = cwake[r]
    /\ \E so \in SaveOutcomes : PublishStage(r, log, download_url[r], so)
    /\ UNCHANGED <<now, pc, exc, start_time, recorder, transcription, session,
                   egress_id, is_cleaning_up, mwake, connected,
                   local_participant, handlers, egress, download_url>>
    /\ UNCHANGED ghostVars
    /\ UNCHANGED <<textVars, managerVars, utilVars>>
    /\ UNCHANGED roomVars

\* publish_data raises without the try around it: handle_cleanup is left
PublishErrorPropagates(r, lg, so) ==
    /\ log' = lg
    /\ cpc' = [cpc EXCEPT ![r] = "raised"]
    /\ cwake' = cwake

\* publish_data raises: `except Exception` logs it, and the transcript is next
OnPublishError(r, lg, so) == SaveAndDisconnect(r, lg, so)

\* publish_data returns (sleep(2)) or raises
PublishReturns(r) ==
    /\ cpc[r] = "publishing"
    /\ \E ok \in BOOLEAN, so \in SaveOutcomes :
        IF ok
        THEN /\ cpc' = [cpc EXCEPT ![r] = "pub_sleep"]
             /\ cwake' = [cwake EXCEPT ![r] = now + DeliverSleep]
             /\ log' = log
        ELSE OnPublishError(
                r, log \o <<Entry(r, "publish_failed", NoValue)>>, so)
    /\ UNCHANGED <<now, pc, exc, start_time, recorder, transcription, session,
                   egress_id, is_cleaning_up, mwake, connected,
                   local_participant, handlers, egress, download_url>>
    /\ UNCHANGED ghostVars
    /\ UNCHANGED <<textVars, managerVars, utilVars>>
    /\ UNCHANGED roomVars

\* the sleep after the notification ends: transcript, then disconnect
PubSleepEnds(r) ==
    /\ cpc[r] = "pub_sleep"
    /\ now = cwake[r]
    /\ \E so \in SaveOutcomes : SaveAndDisconnect(r, log, so)
    /\ UNCHANGED <<now, pc, exc, start_time, recorder, transcription, session,
                   egress_id, is_cleaning_up, mwake, connected,
                   local_participant, handlers, egress, download_url>>
    /\ UNCHANGED ghostVars
    /\ UNCHANGED <<textVars, managerVars, utilVars>>
    /\ UNCHANGED roomVars

\* what handle_cleanup does when room.disconnect raises: nothing catches it
OnDisconnectError == "raised"

\* room.disconnect returns or raises: handle_cleanup is over
DisconnectReturns(r) ==
    /\ cpc[r] = "disconnecting"
    /\ \E ok \in BOOLEAN :
        IF ok
        THEN /\ connected' = FALSE
             /\ cpc' = [cpc EXCEPT ![r] = "returned"]
             /\ log' = log
        ELSE /\ connected' = connected
             /\ cpc' = [cpc EXCEPT ![r] = OnDisconnectError]
             /\ log' = log \o <<Entry(r, "disconnect_failed", NoValue)>>
    /\ MainFollows(r, exc)
    /\ UNCHANGED <<now, exc, start_time, recorder, transcription, session,
                   egress_id, is_cleaning_up, mwake, local_participant,
                   handlers, cwake, egress, download_url>>
    /\ UNCHANGED ghostVars
    /\ UNCHANGED <<textVars, managerVars, utilVars>>
    /\ UNCHANGED roomVars

\* ----------------------------------------------- CloudRecordingManager
\* one manager, called by any caller: each call is awaited before the next

\* a manager for which a recording is always there to stop
AlwaysActive(id) == FALSE

\* `if not self.egress_id`
NoActiveRecording(id) == id = NoValue

\* what the manager's calls leave alone
ManagerFrame ==
    /\ UNCHANGED <<now, pc, exc, start_time, recorder, transcription, session,
                   is_cleaning_up, mwake, connected, local_participant,
                   handlers, cpc, cwake, egress, download_url, log>>
    /\ UNCHANGED ghostVars
    /\ UNCHANGED textVars
    /\ UNCHANGED <<utilVars, roomVars>>

\* start_recording is called: the request is built and
\* a manager that takes the handle before the backend has answered
HandleBeforeAnswer(out, id) == "EG1"

\* `self.egress_id = egress.egress_id` comes after the await of
\* start_room_composite_egress: an exception of the await skips it
HandleAfterStart(out, id) == IF out = "ok" THEN "EG1" ELSE id

\* start_room_composite_egress is awaited
start_recording ==
    /\ rpc = "idle"
    /\ Len(returns) < MaxCalls
    /\ requests' = Append(requests, "start_egress")
    /\ rpc' = "starting"
    /\ UNCHANGED <<egress_id, api_closed, result, returns>>
    /\ ManagerFrame

\* start_room_composite_egress returns (egress_id is set, the egress is
\* returned) or raises (the error is logged and raised again)
StartEgressReturns ==
    /\ rpc = "starting"
    /\ \E out \in {"ok", "quota", "error"} :
        /\ egress_id' = HandleAfterStart(out, egress_id)
        /\ returns' = Append(returns,
                          [call |-> "start_recording",
                           value |-> IF out = "ok" THEN "egress" ELSE "raised",
                           sent |-> TRUE,
                           closed |-> api_closed,
                           error |-> IF out = "ok" THEN NoValue ELSE out,
                           held |-> HandleAfterStart(out, egress_id)])
    /\ rpc' = "idle"
    /\ UNCHANGED <<api_closed, result, requests>>
    /\ ManagerFrame

\* stop_recording is called: without an egress id it returns None at once;
\* with one, stop_egress is awaited
stop_recording ==
    /\ rpc = "idle"
    /\ Len(returns) < MaxCalls
    /\ IF NoActiveRecording(egress_id)
       THEN /\ returns' = Append(returns,
                               [call |-> "stop_recording", value |-> "None",
                                sent |-> FALSE, closed |-> api_closed,
                                error |-> NoValue, held |-> egress_id])
            /\ UNCHANGED <<rpc, requests>>
       ELSE /\ requests' = Append(requests, "stop_egress")
            /\ rpc' = "stopping"
            /\ returns' = returns
    /\ UNCHANGED <<egress_id, api_closed, result>>
    /\ ManagerFrame

\* stop_egress returns (the egress is the result) or raises (None is); the
\* finally clause awaits aclose
StopEgressReturns ==
    /\ rpc = "stopping"
    /\ \E out \in StopOutcomes :
        result' = IF out = "fail" THEN "None" ELSE "egress"
    /\ requests' = Append(requests, "aclose")
    /\ rpc' = "closing"
    /\ UNCHANGED <<egress_id, api_closed, returns>>
    /\ ManagerFrame

\* aclose returns: stop_recording returns its result; aclose raises: the
\* exception leaves stop_recording
AcloseReturns ==
    /\ rpc = "closing"
    /\ \E ok \in BOOLEAN :
        /\ api_closed' = (api_closed \/ ok)
        /\ returns' = Append(returns,
                          [call |-> "stop_recording",
                           value |-> IF ok THEN result ELSE "raised",
                           sent |-> TRUE,
                           closed |-> (api_closed \/ ok),
                           error |-> NoValue,
                           held |-> egress_id])
    /\ result' = NoValue
    /\ rpc' = "idle"
    /\ UNCHANGED <<egress_id, requests>>
    /\ ManagerFrame

\* ------------------------------------------ InterviewAgent.start_interview

\* an exception that is logged and dropped: the finally clause calls
\* handle_cleanup and start_interview returns normally
FailureSwallowed(lg) ==
    /\ exc' = FALSE
    /\ \E so \in SaveOutcomes : Enter(0, lg, so)
    /\ MainFollows(0, FALSE)

\* an exception reaches `except Exception: raise`, and the finally clause
\* calls handle_cleanup
Fails(lg) ==
    /\ exc' = TRUE
    /\ \E so \in SaveOutcomes : Enter(0, lg, so)
    /\ MainFollows(0, TRUE)

\* the engine, the session, the recorder and the aggregator are built in this
\* order; the first failure leaves the later attributes unset.  Then connect.
Construct ==
    /\ pc = "construct"
    /\ \E out \in {"engine_fails", "recorder_fails", "transcription_fails", "ok"} :
        /\ session' = (out # "engine_fails")
        /\ recorder' = (out \in {"transcription_fails", "ok"})
        /\ transcription' = (out = "ok")
        /\ IF out = "ok"
           THEN /\ pc' = "connecting"
                /\ log' = log \o <<Entry(0, "connect", NoValue)>>
                /\ UNCHANGED <<exc, is_cleaning_up, cpc, cwake>>
           ELSE Fails(log)
    /\ UNCHANGED <<now, start_time, egress_id, mwake, connected,
                   local_participant, handlers, egress, download_url>>
    /\ UNCHANGED ghostVars
    /\ UNCHANGED <<textVars, managerVars, utilVars>>
    /\ UNCHANGED roomVars

\* a start_interview that names the folder after the candidate
CandidateArgument == "candidate_id"

\* the second argument of `self.recorder.start_recording(ctx.room.name,
\* self.room_id)`, which start_recording knows as candidate_id
StartRecordingArgument == "room_id"

\* f"ai_interview/{candidate_id}/{{egress_id}}.mp4": the backend puts the
\* egress id in place of {egress_id}
FilePath(candidate_id) ==
    <<"ai_interview", "/", candidate_id, "/", "{egress_id}", ".mp4">>

\* `await self.recorder.start_recording(ctx.room.name, self.room_id)`, and
\* the filepath of the file output it asks for
StartRecordingCall ==
    [by |-> 0, op |-> "start_recording", arg |-> StartRecordingArgument,
     room_name |-> "room_name", filepath |-> FilePath(StartRecordingArgument)]

\* the loop over room.remote_participants and their track_publications:
\* `if not publication.subscribed and publication.track: set_subscribed(True)`
SubscribeAll(ts) ==
    [i \in DOMAIN ts |->
        IF ~ts[i].subscribed /\ ts[i].track
        THEN [ts[i] EXCEPT !.subscribed = TRUE]
        ELSE ts[i]]

\* ctx.connect returns: the data_received and participant_disconnected
\* handlers are registered, the publications of the room are gone through and
\* start_recording is awaited; or it raises
ConnectReturns ==
    /\ pc = "connecting"
    /\ \E ok \in BOOLEAN :
        IF ok
        THEN /\ connected' = TRUE
             /\ local_participant' = TRUE
             /\ handlers' = TRUE
             /\ pc' = "starting_rec"
             /\ tracks' = SubscribeAll(tracks)
             /\ log' = log \o <<StartRecordingCall>>
             /\ UNCHANGED <<exc, is_cleaning_up, cpc, cwake>>
        ELSE /\ Fails(log \o <<Entry(0, "connect_failed", NoValue)>>)
             /\ UNCHANGED <<connected, local_participant, handlers, tracks>>
    /\ UNCHANGED <<now, start_time, recorder, transcription, session,
                   egress_id, mwake, egress, download_url>>
    /\ UNCHANGED ghostVars
    /\ UNCHANGED <<textVars, managerVars, utilVars>>
    /\ UNCHANGED <<tracing, received>>

\* `await self.session.start(...)` is reached
StartSession(lg) ==
    /\ log' = lg \o <<Entry(0, "session_start", NoValue)>>
    /\ pc' = "starting_session"
    /\ UNCHANGED <<exc, is_cleaning_up, cpc, cwake>>

\* a start_recording error that is not caught: it leaves start_interview
StartRecordingErrorPropagates(lg) == Fails(lg)

\* an except clause that logs the error and tells the candidate nothing
OnStartRecordingErrorSilent(lg) == StartSession(lg)

\* `except Exception as e` around start_recording: the error is logged, a
\* warning is added to the history if there is a session, and the setup goes on
OnStartRecordingError(lg) ==
    StartSession(lg \o (IF session THEN <<Entry(0, "warning", NoValue)>>
                        ELSE <<>>))

\* start_room_composite_egress returns (egress_id is set) or raises (a quota
\* error or another one: start_recording re-raises, start_interview appends a
\* warning to the history); then session.start is awaited
StartRecordingReturns ==
    /\ pc = "starting_rec"
    /\ \E out \in {"ok", "quota", "error"} :
        /\ egress_id' = HandleAfterStart(out, egress_id)
        /\ IF out = "ok"
           THEN StartSession(log)
           ELSE OnStartRecordingError(
                    log \o <<Entry(0, "start_recording_failed", out)>>)
    /\ UNCHANGED <<now, start_time, recorder, transcription, session, mwake,
                   connected, local_participant, handlers, egress,
                   download_url>>
    /\ UNCHANGED ghostVars
    /\ UNCHANGED <<textVars, managerVars, utilVars>>
    /\ UNCHANGED roomVars

\* a start_interview that greets and monitors without marking start_time
GreetUnmarked ==
    /\ start_time' = start_time
    /\ log' = log \o <<Entry(0, "greeting", NoValue)>>
    /\ mwake' = now + PollInterval
    /\ pc' = "mon_sleep"

\* `self.start_time = datetime.now()`, the greeting is added to the history
\* and generate_reply is called, then the monitor begins with its sleep(30)
MarkAndGreet ==
    /\ start_time' = now
    /\ log' = log \o <<Entry(0, "greeting", NoValue)>>
    /\ mwake' = now + PollInterval
    /\ pc' = "mon_sleep"

\* session.start returns: start_time is set, the greeting is sent and the
\* monitor begins its first sleep; or it raises
SessionStartReturns ==
    /\ pc = "starting_session"
    /\ \E ok \in BOOLEAN :
        IF ok
        THEN /\ MarkAndGreet
             /\ UNCHANGED <<exc, is_cleaning_up, cpc, cwake>>
        ELSE /\ Fails(log \o <<Entry(0, "session_start_failed", NoValue)>>)
             /\ UNCHANGED <<start_time, mwake>>
    /\ UNCHANGED <<now, recorder, transcription, session, egress_id,
                   connected, local_participant, handlers, egress,
                   download_url>>
    /\ UNCHANGED ghostVars
    /\ UNCHANGED <<textVars, managerVars, utilVars>>
    /\ UNCHANGED roomVars

\* -------------------------------- InterviewAgent._monitor_interview_duration

\* a monitor that never finds the budget used up
ExpiredNever(elapsed) == FALSE

\* a monitor that needs the budget to be exceeded
ExpiredStrictly(elapsed) == elapsed > max_duration_seconds

\* `if elapsed >= max_duration_seconds`
Expired(elapsed) == elapsed >= max_duration_seconds

\* a monitor that gives up when the closing message raises
ClosingErrorStopsMonitor ==
    /\ log' = log \o <<Entry(0, "closing_failed", NoValue)>>
    /\ mwake' = NoTime
    /\ pc' = "mon_sleep"

\* the closing message raises: `except: pass`, then room.disconnect is awaited
OnClosingError ==
    /\ log' = log \o <<Entry(0, "closing_failed", NoValue),
                       Entry(0, "mon_disconnect", NoValue)>>
    /\ mwake' = NoTime
    /\ pc' = "mon_disc"

\* the monitor's sleep(30) ends: one poll
MonitorPoll ==
    /\ pc = "mon_sleep"
    /\ now = mwake
    /\ IF start_time # NoTime /\ Expired(now - start_time)
       THEN /\ detectedAt' = now
            /\ UNCHANGED <<missedPoll, polledAfter>>
            /\ \E ok \in BOOLEAN :
                IF ok
                THEN \* the closing message, then sleep(3)
                     /\ log' = log \o <<Entry(0, "closing", NoValue)>>
                     /\ mwake' = now + GraceSleep
                     /\ pc' = "mon_grace"
                ELSE OnClosingError
       ELSE /\ detectedAt' = detectedAt
            /\ missedPoll' =
                  (missedPoll \/ (start_time # NoTime
                                    /\ now - start_time >= max_duration_seconds))
            /\ polledAfter' =
                  (polledAfter \/ \E r \in Runners :
                                    r # 0 /\ CountBy(r, "disconnect") = 1)
            /\ mwake' = now + PollInterval
            /\ UNCHANGED <<pc, log>>
    /\ UNCHANGED <<now, exc, start_time, recorder, transcription, session,
                   egress_id, is_cleaning_up, connected, local_participant,
                   handlers, cpc, cwake, egress, download_url>>
    /\ extEarly' = extEarly
    /\ UNCHANGED <<textVars, managerVars, utilVars>>
    /\ UNCHANGED roomVars

\* the sleep(3) after the closing message ends: room.disconnect is awaited
GraceEnds ==
    /\ pc = "mon_grace"
    /\ now = mwake
    /\ log' = log \o <<Entry(0, "mon_disconnect", NoValue)>>
    /\ mwake' = NoTime
    /\ pc' = "mon_disc"
    /\ UNCHANGED <<now, exc, start_time, recorder, transcription, session,
                   egress_id, is_cleaning_up, connected, local_participant,
                   handlers, cpc, cwake, egress, download_url>>
    /\ UNCHANGED ghostVars
    /\ UNCHANGED <<textVars, managerVars, utilVars>>
    /\ UNCHANGED roomVars

\* the monitor's room.disconnect returns (break, then the finally clause) or
\* raises (the exception leaves the monitor, then the finally clause)
MonitorDisconnectReturns ==
    /\ pc = "mon_disc"
    /\ \E ok \in BOOLEAN, so \in SaveOutcomes :
        IF ok
        THEN /\ connected' = FALSE
             /\ exc' = exc
             /\ Enter(0, log, so)
             /\ MainFollows(0, exc)
        ELSE /\ connected' = connected
             /\ Fails(log \o <<Entry(0, "mon_disconnect_failed", NoValue)>>)
    /\ UNCHANGED <<now, start_time, recorder, transcription, session,
                   egress_id, mwake, local_participant, handlers, egress,
                   download_url>>
    /\ UNCHANGED ghostVars
    /\ UNCHANGED <<textVars, managerVars, utilVars>>
    /\ UNCHANGED roomVars

\* ------------------------------------------------------- the room's events

\* a handler that takes every decodable message on user_actions for the signal
AnyUserAction(topic, type) ==
    topic = "user_actions" /\ type \in {"USER_ENDED_CALL", "PING"}

\* on_data_received: `topic == "user_actions"` and `type == "USER_ENDED_CALL"`
IsEndSignal(topic, type) == topic = "user_actions" /\ type = "USER_ENDED_CALL"

\* asyncio.create_task(self.handle_cleanup(ctx)): the next task is made ready
Spawn ==
    /\ \E r \in 1 .. MaxTasks :
        /\ cpc[r] = "idle"
        /\ \A q \in 1 .. (r - 1) : cpc[q] # "idle"
        /\ cpc' = [cpc EXCEPT ![r] = "ready"]
    /\ extEarly' =
          (extEarly \/ (pc = "mon_sleep"
                          /\ now - start_time < max_duration_seconds))

\* the room's event is remembered for the claims about the handlers
Remember(ev) ==
    received' = IF tracing THEN Append(received, ev) ELSE received

Topics == {"user_actions", "chat"}

\* the payloads: JSON objects of two types, bytes that json.loads or decode
\* rejects, JSON that is not an object (data.get raises AttributeError)
Payloads == {"USER_ENDED_CALL", "PING", "undecodable", "not_an_object"}

\* a handler that lets the error of the payload out
OnPayloadErrorPropagates == "raised"

\* `except Exception as e: logger.error(...)` inside on_data_received
OnPayloadError == "logged"

\* how on_data_received ends: the payload is only looked at on user_actions
DataOutcome(topic, body) ==
    IF topic = "user_actions" /\ body \in {"undecodable", "not_an_object"}
    THEN OnPayloadError
    ELSE "returned"

\* a data packet arrives
on_data_received ==
    /\ handlers /\ connected
    /\ tracing => Len(received) < MaxMessages
    /\ \E topic \in Topics, type \in Payloads :
        /\ IF IsEndSignal(topic, type)
           THEN Spawn
           ELSE UNCHANGED <<cpc, extEarly>>
        /\ Remember([kind |-> "data", topic |-> topic, body |-> type,
                     identity |-> NoValue, spawned |-> (cpc' # cpc),
                     outcome |-> DataOutcome(topic, type)])
    /\ UNCHANGED <<now, pc, exc, start_time, recorder, transcription, session,
                   egress_id, is_cleaning_up, mwake, connected,
                   local_participant, handlers, cwake, egress, download_url,
                   log>>
    /\ UNCHANGED <<polledAfter, detectedAt, missedPoll>>
    /\ UNCHANGED <<textVars, managerVars, utilVars>>
    /\ UNCHANGED <<tracing, tracks>>

\* the identities of the remote participants: the candidate of the session
\* (identity = self.candidate_id), another participant whose identity holds
\* the word candidate, and one whose identity does not
Identities == {"candidate_id", "Candidate-2", "observer"}

\* `participant.identity == self.candidate_id or "candidate" in identity.lower()`
IsCandidate(identity) == identity \in {"candidate_id", "Candidate-2"}

\* a remote participant leaves the room
on_participant_disconnected ==
    /\ handlers /\ connected
    /\ tracing => Len(received) < MaxMessages
    /\ \E identity \in Identities :
        /\ IF IsCandidate(identity)
           THEN Spawn
           ELSE UNCHANGED <<cpc, extEarly>>
        /\ Remember([kind |-> "participant", topic |-> NoValue,
                     body |-> NoValue, identity |-> identity,
                     spawned |-> (cpc' # cpc), outcome |-> "returned"])
    /\ UNCHANGED <<now, pc, exc, start_time, recorder, transcription, session,
                   egress_id, is_cleaning_up, mwake, connected,
                   local_participant, handlers, cwake, egress, download_url,
                   log>>
    /\ UNCHANGED <<polledAfter, detectedAt, missedPoll>>
    /\ UNCHANGED <<textVars, managerVars, utilVars>>
    /\ UNCHANGED <<tracing, tracks>>

\* `@ctx.room.on("track_published")` has been executed: it comes after the
\* await of start_recording
TrackHandlerRegistered ==
    handlers /\ pc \notin {"construct", "connecting", "starting_rec"}

\* the publications made since ctx.connect returned
PublishedSinceConnect == {i \in DOMAIN tracks : tracks[i].at # "before"}

\* a remote participant publishes a track: the room emits track_published,
\* and on_track_published, if it is registered, calls set_subscribed(True)
on_track_published ==
    /\ connected
    /\ Cardinality(PublishedSinceConnect) < MaxTracks
    /\ tracks' = Append(tracks, [at |-> pc, track |-> FALSE,
                                 subscribed |-> TrackHandlerRegistered])
    /\ UNCHANGED <<now, pc, exc, start_time, recorder, transcription, session,
                   egress_id, is_cleaning_up, mwake, connected,
                   local_participant, handlers, cpc, cwake, egress,
                   download_url, log>>
    /\ UNCHANGED ghostVars
    /\ UNCHANGED <<textVars, managerVars, utilVars>>
    /\ UNCHANGED <<tracing, received>>

\* ---------------------------------------------------------------- the clock

MonitorSleeps == pc \in {"mon_sleep", "mon_grace"}
CleanupSleeps(r) == cpc[r] \in {"rec_sleep", "pub_sleep"}

\* a sleep of a few seconds is pending: sleep(2) of the cleanup, sleep(3) of
\* the monitor
ShortSleepPending ==
    \/ pc = "mon_grace"
    \/ \E r \in Runners : CleanupSleeps(r)

\* the longest of the cleanup's sleeps
ShortSleep == IF FinalizeSleep > DeliverSleep THEN FinalizeSleep ELSE DeliverSleep

\* The instant the clock shows next.  It advances second by second while a
\* short sleep is pending, while the monitor's poll is at most a short sleep
\* away, and before the session has started.  While only the monitor's
\* sleep(30) is pending and its end is further away, every sleep that begins
\* before the end minus ShortSleep is over before the poll, whichever second
\* it begins at: the clock goes to that instant in one step.
NextInstant ==
    IF pc = "mon_sleep" /\ ~ShortSleepPending /\ now < mwake - ShortSleep
    THEN mwake - ShortSleep
    ELSE now + 1

\* time passes: no sleeper is due, and either a sleeper waits or the session
\* has not started yet
Tick ==
    /\ now < Horizon
    /\ MonitorSleeps => now < mwake
    /\ \A r \in Runners : CleanupSleeps(r) => now < cwake[r]
    /\ \/ MonitorSleeps
       \/ \E r \in Runners : CleanupSleeps(r)
       \/ (start_time = NoTime /\ now < MaxSetupDelay
             /\ pc \notin {"done", "raised"})
    /\ now' = NextInstant
    /\ UNCHANGED <<pc, exc, start_time, recorder, transcription, session,
                   egress_id, is_cleaning_up, mwake, connected,
                   local_participant, handlers, cpc, cwake, egress,
                   download_url, log>>
    /\ UNCHANGED ghostVars
    /\ UNCHANGED <<textVars, managerVars, utilVars>>
    /\ UNCHANGED roomVars

\* ------------------------------------- TranscriptionHandler.on_transcript

\* the characters of a text; str.strip() removes the whitespace ones
Chars == {"x", " "}
Whitespace == {" ", "\t", "\n"}

Texts == UNION {[1 .. n -> Chars] : n \in 0 .. MaxTextLen}

\* who an event attributes its text to
Speakers == {"AI_Interviewer", "candidate_id"}

\* the events given to on_transcript: getattr(event, 'is_final', False),
\* event.participant.identity and event.text
TranscriptEvents == [is_final : BOOLEAN, speaker : Speakers, text : Texts]

RECURSIVE LStrip(_)
LStrip(t) ==
    IF t = <<>> THEN <<>>
    ELSE IF Head(t) \in Whitespace THEN LStrip(Tail(t))
    ELSE t

RECURSIVE RStrip(_)
RStrip(t) ==
    IF t = <<>> THEN <<>>
    ELSE IF t[Len(t)] \in Whitespace THEN RStrip(SubSeq(t, 1, Len(t) - 1))
    ELSE t

\* str.strip()
Strip(t) == RStrip(LStrip(t))

\* a check that forgets strip()
DroppedIfEmpty(text) == text = <<>>

\* `if not text.strip(): return`
Dropped(text) == Strip(text) = <<>>

\* a test that looks at every stored entry
SameSpeakerAnywhere(tr, speaker) ==
    \E i \in 1 .. Len(tr) : tr[i].speaker = speaker

\* `self.transcript and self.transcript[-1]['speaker'] == speaker`
SameSpeaker(tr, speaker) == tr # <<>> /\ tr[Len(tr)].speaker = speaker

\* the transcript after on_transcript(ev); an entry's timestamp is left out
OnTranscriptResult(tr, ev) ==
    IF ~ev.is_final THEN tr
    ELSE IF Dropped(ev.text) THEN tr
    ELSE IF SameSpeaker(tr, ev.speaker)
         THEN [tr EXCEPT ![Len(tr)].text = @ \o <<" ">> \o ev.text]
         ELSE Append(tr, [speaker |-> ev.speaker, text |-> ev.text])

InitText ==
    /\ transcript = <<>>
    /\ events = <<>>
    /\ engine = <<>>
    /\ tasks = <<>>
    /\ raw = <<>>
    /\ outcomes = <<>>
    /\ stored = <<>>
    /\ reads = <<>>

\* one call of on_transcript: it has no await, so it runs in one piece
on_transcript ==
    /\ Len(events) < MaxEvents
    /\ \E ev \in TranscriptEvents :
        /\ transcript' = OnTranscriptResult(transcript, ev)
        /\ events' = Append(events, ev)
    /\ UNCHANGED sessionVars
    /\ UNCHANGED rawVars
    /\ UNCHANGED storeVars
    /\ UNCHANGED <<lifeVars, managerVars, utilVars, roomVars>>

\* ----------------------- on_transcript, given an event object of any shape

\* lines 51 and 54-59: the write that follows the test of line 50
Write(tr, ev, coalesce) ==
    IF coalesce
    THEN [tr EXCEPT ![Len(tr)].text = @ \o <<" ">> \o ev.text]
    ELSE Append(tr, [speaker |-> ev.speaker, text |-> ev.text])

\* a bytes object stands where a text is expected
ByteChars == {"b'x'"}
IsBytes(t) == \E i \in 1 .. Len(t) : t[i] \in ByteChars

\* event.text: a str, a bytes object, a value without strip() (a number,
\* None), or no such attribute
RawTexts ==
    [kind : {"str"}, val : Texts]
        \cup [kind : {"bytes"}, val : {<<"b'x'">>}]
        \cup [kind : {"number", "missing"}, val : {<<>>}]

\* the event objects: is_final true, false or not there; a participant with
\* an identity, one without, or none; a text
RawEvents ==
    [is_final : {"true", "false", "missing"},
     participant : Speakers \cup {"no_identity", "missing"},
     text : RawTexts]

\* an exception that leaves on_transcript
OnErrorPropagates(tr) == [transcript |-> tr, how |-> "raised"]

\* `except Exception as e: logger.error(...)`: the call returns
OnError(tr) == [transcript |-> tr, how |-> "caught"]

\* on_transcript statement by statement: the transcript it leaves and how it
\* ends
OnTranscriptOutcome(tr, ev) ==
    IF ev.is_final # "true"
    THEN \* getattr(event, 'is_final', False)
         [transcript |-> tr, how |-> "returned"]
    ELSE IF ev.participant = "no_identity"
    THEN \* event.participant.identity: AttributeError
         OnError(tr)
    ELSE LET speaker == IF ev.participant = "missing" THEN "unknown"
                        ELSE ev.participant
             text == IF ev.text.kind = "missing" THEN <<>> ELSE ev.text.val
             entry == [speaker |-> speaker, text |-> text]
         IN  IF ev.text.kind = "number"
             THEN \* text.strip(): AttributeError
                  OnError(tr)
             ELSE IF Dropped(text)
             THEN [transcript |-> tr, how |-> "returned"]
             ELSE IF SameSpeaker(tr, speaker)
             THEN IF IsBytes(text) \/ IsBytes(tr[Len(tr)].text)
                  THEN \* " " + bytes, bytes + str: TypeError, nothing stored
                       OnError(tr)
                  ELSE [transcript |-> Write(tr, entry, TRUE),
                        how |-> "returned"]
             ELSE [transcript |-> Write(tr, entry, FALSE), how |-> "returned"]

\* one call of on_transcript with any event object
OnTranscriptCall ==
    /\ Len(raw) < MaxRawEvents
    /\ \E ev \in RawEvents :
        LET out == OnTranscriptOutcome(transcript, ev) IN
        /\ transcript' = out.transcript
        /\ raw' = Append(raw, ev)
        /\ outcomes' = Append(outcomes, [how |-> out.how,
                                         changed |-> out.transcript # transcript])
    /\ events' = events
    /\ UNCHANGED sessionVars
    /\ UNCHANGED storeVars
    /\ UNCHANGED <<lifeVars, managerVars, utilVars, roomVars>>

\* ----------------- get_full_transcript and save_formatted_transcript

\* the texts of the entries of a stored transcript: not blank
EntryTexts == {<<"x">>, <<"x", " ", "x">>}

\* the transcripts on_transcript leaves: no two adjacent entries of one
\* speaker
Transcripts ==
    {tr \in UNION {[1 .. n -> [speaker : Speakers \cup {"unknown"},
                               text : EntryTexts]] : n \in 0 .. MaxEntries} :
        \A i \in 1 .. (Len(tr) - 1) : tr[i].speaker # tr[i + 1].speaker}

\* `"Interviewer" if entry['speaker'] == "AI_Interviewer" else "Candidate"`
SpeakerLabel(speaker) ==
    IF speaker = "AI_Interviewer" THEN "Interviewer" ELSE "Candidate"

\* f"[{speaker_label}]: {entry['text']}"
FormattedLine(entry) ==
    <<"[", SpeakerLabel(entry.speaker), "]", ":", " ">> \o entry.text

\* a separator of one line break
SingleNewline == <<"\n">>

\* the separator of "\n\n".join(lines)
BlankLine == <<"\n", "\n">>

\* sep.join(lines)
RECURSIVE Join(_, _)
Join(lines, sep) ==
    IF lines = <<>> THEN <<>>
    ELSE IF Len(lines) = 1 THEN lines[1]
    ELSE lines[1] \o sep \o Join(Tail(lines), sep)

\* formatted_content of save_formatted_transcript
FormattedContent(tr) ==
    Join([i \in 1 .. Len(tr) |-> FormattedLine(tr[i])], BlankLine)

\* f"[{time_str}] {speaker}: {text}" of get_full_transcript; every entry has
\* a timestamp, whose time of day stands as one token
TranscriptLine(entry) ==
    <<"[", "HH:MM:SS", "]", " ", entry.speaker, ":", " ">> \o entry.text

\* '\n'.join(transcript_lines): no stored entry has an is_final key, so none
\* is skipped
FullTranscript(tr) ==
    Join([i \in 1 .. Len(tr) |-> TranscriptLine(tr[i])], <<"\n">>)

\* a key that never carries the recording's identifier
KeyWithoutRecording(id) ==
    <<"ai_interview", "/", "room_id", "/", "transcript.txt">>

\* f"ai_interview/{self.interview_id}/{filename}", the file name beginning
\* with the egress id when there is one
TranscriptKey(id) ==
    <<"ai_interview", "/", "room_id", "/">>
        \o (IF id # NoValue THEN <<id, "_transcript.txt">>
            ELSE <<"transcript.txt">>)

\* how a save can go: the object is put; put_object raises; `import boto3`
\* raises; one of S3_ACCESS_KEY, S3_SECRET_KEY, S3_BUCKET is not set
UploadOutcomes == {"uploaded", "put_failed", "import_failed", "no_credentials"}

\* what the caller can tell of it
SaveOutcome(up) ==
    IF up = "uploaded" THEN "uploaded"
    ELSE IF up = "no_credentials" THEN "skipped"
    ELSE "failed"

\* a reader that empties what it has read
ClearedByRead(tr) == <<>>

\* self.transcript after a loop that only reads its entries
LeftByRead(tr) == tr

\* get_full_transcript()
get_full_transcript ==
    /\ Len(reads) < MaxReads
    /\ reads' = Append(reads, [op |-> "get_full_transcript",
                               value |-> FullTranscript(transcript)])
    /\ transcript' = LeftByRead(transcript)
    /\ UNCHANGED <<events, stored>>
    /\ UNCHANGED sessionVars
    /\ UNCHANGED rawVars
    /\ UNCHANGED <<lifeVars, managerVars, utilVars, roomVars>>

\* save_formatted_transcript(egress_id=id)
save_formatted_transcript ==
    /\ Len(reads) < MaxReads
    /\ \E id \in {NoValue, "EG1"}, up \in UploadOutcomes :
        /\ stored' =
              IF up \in {"uploaded", "put_failed"}
              THEN Append(stored, [key |-> TranscriptKey(id),
                                   egress_id |-> id,
                                   body |-> FormattedContent(transcript),
                                   ok |-> (up = "uploaded")])
              ELSE stored
        /\ reads' = Append(reads,
                        [op |-> "save_formatted_transcript",
                         value |-> IF up = "uploaded" THEN TranscriptKey(id)
                                   ELSE <<>>,
                         outcome |-> SaveOutcome(up)])
    /\ transcript' = LeftByRead(transcript)
    /\ events' = events
    /\ UNCHANGED sessionVars
    /\ UNCHANGED rawVars
    /\ UNCHANGED <<lifeVars, managerVars, utilVars, roomVars>>

\* ------------------- the session's handlers: _on_user_transcript, _on_item_added

\* the texts the engine reports (ev.transcript, ev.item.text_content): an
\* empty one, one with a word, a blank one
EngineTexts == {<<>>, <<"x">>, <<" ">>}

\* the events the engine emits: a transcription of the candidate's speech,
\* interim or final, or an item added to the conversation
EngineEvents ==
    [source : {"user_input_transcribed"}, is_final : BOOLEAN,
     role : {"user"}, text : EngineTexts]
        \cup [source : {"conversation_item_added"}, is_final : {TRUE},
              role : {"assistant", "user"}, text : EngineTexts]

\* the finality flag of the event object _on_user_transcript builds
UserEventIsFinal(engineFlag) == TRUE

\* the event object a handler gives to on_transcript
HandlerEvent(e) ==
    IF e.source = "user_input_transcribed"
    THEN [is_final |-> UserEventIsFinal(e.is_final), speaker |-> "candidate_id",
          text |-> e.text]
    ELSE [is_final |-> TRUE, speaker |-> "AI_Interviewer", text |-> e.text]

\* `if ev.transcript:` and `if ev.item.role == "assistant" and
\* ev.item.text_content:`; self.transcription is set before the handlers are
\* registered
HandlerSpawns(e) ==
    IF e.source = "user_input_transcribed" THEN e.text # <<>>
    ELSE e.role = "assistant" /\ e.text # <<>>

\* the tasks that have not run to their end
Unfinished == {i \in 1 .. Len(tasks) : tasks[i].at # "done"}

\* asyncio.create_task(self.transcription.on_transcript(event)); the task
\* remembers where the cleanups were and whether the guard was set when it
\* was created
CreateTask(e) ==
    Append(tasks, [ev |-> HandlerEvent(e), at |-> "ready", coalesce |-> FALSE,
                   source |-> e.source, overlaps |-> (Unfinished # {}),
                   cpc |-> cpc, cleaning |-> is_cleaning_up])

\* the engine emits an event and the session calls the handler registered
\* for it
EngineEmits(e) ==
    /\ Len(engine) < MaxEvents
    /\ engine' = Append(engine, e)
    /\ tasks' = IF HandlerSpawns(e) THEN CreateTask(e) ELSE tasks
    /\ UNCHANGED <<transcript, events>>
    /\ UNCHANGED rawVars
    /\ UNCHANGED storeVars
    /\ UNCHANGED <<lifeVars, managerVars, utilVars, roomVars>>

_on_user_transcript ==
    \E e \in EngineEvents :
        e.source = "user_input_transcribed" /\ EngineEmits(e)

_on_item_added ==
    \E e \in EngineEvents :
        e.source = "conversation_item_added" /\ EngineEmits(e)

\* a coroutine that is suspended between the test of line 50 and the write
AwaitsBeforeWrite == TRUE

\* the body of on_transcript has no await: once a task runs, it runs to its
\* end
SuspendsBeforeWrite == FALSE

\* an event loop that starts the tasks in any order
StartsInAnyOrder(i) == TRUE

\* asyncio.create_task schedules the first step of the task with call_soon:
\* the loop runs these callbacks in the order of their scheduling
StartsInOrder(i) == \A j \in 1 .. (i - 1) : tasks[j].at # "ready"

\* the event loop runs a task: a created task starts after those created
\* before it
TranscriptTask ==
    /\ \E i \in Unfinished :
        /\ tasks[i].at = "ready" => StartsInOrder(i)
        /\ LET t == tasks[i]
               writes == t.ev.is_final /\ ~Dropped(t.ev.text)
           IN  IF t.at = "ready" /\ writes /\ SuspendsBeforeWrite
               THEN /\ tasks' = [tasks EXCEPT
                                   ![i].at = "suspended",
                                   ![i].coalesce =
                                       SameSpeaker(transcript, t.ev.speaker)]
                    /\ UNCHANGED <<transcript, events>>
               ELSE /\ transcript' =
                         IF t.at = "ready"
                         THEN OnTranscriptResult(transcript, t.ev)
                         ELSE Write(transcript, t.ev, t.coalesce)
                    /\ events' = Append(events, t.ev)
                    /\ tasks' = [tasks EXCEPT ![i].at = "done"]
    /\ engine' = engine
    /\ UNCHANGED rawVars
    /\ UNCHANGED storeVars
    /\ UNCHANGED <<lifeVars, managerVars, utilVars, roomVars>>

\* --------------------------------------------------------------- entrypoint

\* a key the metadata object does not have
Missing == NoValue

\* the candidate_id values a metadata object can carry: an identifier, the
\* sentinel itself, the empty string
SuppliedIds == {"cand-1", "unknown", ""}

\* ctx.room.metadata: None, the empty string, text that is not JSON, JSON
\* that is not an object, or a JSON object with or without candidate_id and
\* job_role
Metadata ==
    {[form |-> f, candidate_id |-> Missing, job_role |-> Missing] :
        f \in {"absent", "empty", "invalid", "array"}}
    \cup {[form |-> "object", candidate_id |-> c, job_role |-> j] :
            c \in {Missing} \cup SuppliedIds, j \in {Missing, "qa"}}

\* `json.loads(ctx.room.metadata) if ctx.room.metadata else {}` followed by
\* the two .get calls: they raise on text that is not JSON (json.loads) and
\* on JSON that is not an object (no .get)
LoadsRaises(md) == md.form \in {"invalid", "array"}

\* `room_metadata.get(key, default)`
Get(value, default) == IF value = Missing THEN default ELSE value

\* f"session-{datetime.now().strftime(...)}-{str(uuid.uuid4())[:6]}": two
\* instants and two random suffixes
GeneratedIds ==
    {"session-20260101_000000-a3f9c2", "session-20260101_000000-07be11",
     "session-20260101_000001-a3f9c2"}

\* an entrypoint without the fallback
KeepSentinel(candidate, generated) == candidate

\* `if candidate_id == "unknown": candidate_id = f"session-..."`
FallbackId(candidate, generated) ==
    IF candidate = "unknown" THEN generated ELSE candidate

\* a job arrives: entrypoint reads the room's metadata and builds the
\* InterviewAgent it then starts, or raises while reading
entrypoint ==
    /\ Len(jobs) < MaxJobs
    /\ \E md \in Metadata, generated \in GeneratedIds :
        jobs' = Append(jobs,
            IF LoadsRaises(md)
            THEN [metadata |-> md, outcome |-> "raised",
                  candidate_id |-> NoValue, job_role |-> NoValue]
            ELSE [metadata |-> md, outcome |-> "started",
                  candidate_id |->
                      FallbackId(Get(md.candidate_id, "unknown"), generated),
                  job_role |-> Get(md.job_role, "software_engineer")])
    /\ report' = report
    /\ settings' = settings
    /\ UNCHANGED <<lifeVars, textVars, managerVars, roomVars>>

\* ------------------------------ EvaluationReport.generate_markdown_report

\* a key of the evaluation whose value is a list (or, for the scores, a
\* dictionary): the key is missing, or given with up to MaxItems items
NoList == [given |-> FALSE, items |-> <<>>]
ListsOf(item) ==
    {NoList} \cup {[given |-> TRUE, items |-> [i \in 1 .. n |-> item]] :
                    n \in 0 .. MaxItems}
ItemLists == ListsOf("item")
ScoreLists == ListsOf("technical_skills")

\* the evaluation dictionaries: every key can be missing; the five scalars of
\* the overview are missing or present together
Evaluations ==
    [overview : {Missing, "given"},
     detailed_scores : ScoreLists,
     strengths : ItemLists,
     areas_for_improvement : ItemLists,
     key_observations : ItemLists,
     standout_moments : ItemLists,
     concerns : ItemLists,
     detailed_feedback : {Missing, "text"},
     next_steps_recommendation : {Missing, "text"}]

\* `evaluation.get(key, [])`, and .get(key, {}) for the scores
GetList(value) == IF value.given THEN value.items ELSE <<>>

\* `if evaluation.get(key):` for a list: it is there and not empty
Truthy(value) == GetList(value) # <<>>

\* a line of the report is the sequence of the pieces it is formatted from;
\* `report += "\n## <name>\n"` and one "- <item>\n" for each item
Section(name, items) ==
    <<<<>>, <<"## ", name>>>> \o [i \in 1 .. Len(items) |-> <<"- ", items[i]>>]

\* a section that is only rendered for a list that is not empty
OptionalSection(name, value) ==
    IF Truthy(value) THEN Section(name, GetList(value)) ELSE <<>>

\* a free-text section: heading, blank line, the text or N/A
TextSection(name, value) ==
    <<<<>>, <<"## ", name>>, <<>>, <<Get(value, "N/A")>>>>

\* the f-string the report begins with, up to "## Detailed Scores\n"
ReportHead(e) ==
    <<<<"# ", "Interview Evaluation Report">>, <<>>,
      <<"## ", "Candidate Information">>,
      <<"- ", "**Candidate ID**: ", Get(e.overview, "N/A")>>,
      <<"- ", "**Job Role**: ", Get(e.overview, "N/A")>>,
      <<"- ", "**Evaluation Date**: ", Get(e.overview, "N/A")>>,
      <<>>,
      <<"## ", "Overall Assessment">>,
      <<"- ", "**Overall Score**: ", Get(e.overview, "N/A"), "/10">>,
      <<"- ", "**Recommendation**: ", Get(e.overview, "N/A")>>,
      <<>>,
      <<"## ", "Detailed Scores">>>>

\* `category.replace('_', ' ').title()` of the one category of the model
CategoryName(category) ==
    IF category = "technical_skills" THEN "Technical Skills" ELSE category

\* one line for each item of detailed_scores
ScoreLines(scores) ==
    [i \in 1 .. Len(scores) |-> <<"- ", CategoryName(scores[i]), "/10">>]

\* a report that begins its lists with the concerns
ConcernsFirst(e) ==
    OptionalSection("Concerns", e.concerns)
        \o Section("Strengths", GetList(e.strengths))
        \o Section("Areas for Improvement", GetList(e.areas_for_improvement))
        \o Section("Key Observations", GetList(e.key_observations))
        \o OptionalSection("Standout Moments", e.standout_moments)

\* the five list sections, the last two only for lists that are not empty
ListSections(e) ==
    Section("Strengths", GetList(e.strengths))
        \o Section("Areas for Improvement", GetList(e.areas_for_improvement))
        \o Section("Key Observations", GetList(e.key_observations))
        \o OptionalSection("Standout Moments", e.standout_moments)
        \o OptionalSection("Concerns", e.concerns)

\* the lines of the report of evaluation e
MarkdownReport(e) ==
    ReportHead(e)
        \o ScoreLines(GetList(e.detailed_scores))
        \o ListSections(e)
        \o TextSection("Detailed Feedback", e.detailed_feedback)
        \o TextSection("Next Steps", e.next_steps_recommendation)

\* EvaluationReport.generate_markdown_report(evaluation): a static function
\* of its argument, called once
generate_markdown_report ==
    /\ report = <<>>
    /\ \E e \in Evaluations :
        report' = <<[evaluation |-> e, lines |-> MarkdownReport(e)]>>
    /\ jobs' = jobs
    /\ settings' = settings
    /\ UNCHANGED <<lifeVars, textVars, managerVars, roomVars>>

\* ------------------------------------------------------------------ Config

\* what an environment variable read with a default of "" can hold
Values == {"", "set"}

\* `os.getenv("USE_CLOUD_STORAGE", "false").lower() == "true"`
IsTrue(v) == v \in {"true", "TRUE"}

\* the truth value of a string or None
IsSet(v) == v \notin {"", NoValue}

\* the environment variables validate and get_storage_config depend on:
\* USE_CLOUD_STORAGE is "false" when absent, and GCS_BUCKET, read without a
\* default, is None when absent
Environments ==
    [GOOGLE_API_KEY : Values, LIVEKIT_URL : Values, LIVEKIT_API_KEY : Values,
     LIVEKIT_API_SECRET : Values,
     USE_CLOUD_STORAGE : {"false", "true", "TRUE", "1"},
     AWS_ACCESS_KEY : Values, AWS_SECRET_KEY : Values,
     GCS_BUCKET : {NoValue, "", "set"}]

\* the names of the required fields whose value is empty
missing_fields(c) ==
    {f \in {"GOOGLE_API_KEY", "LIVEKIT_URL", "LIVEKIT_API_KEY",
            "LIVEKIT_API_SECRET"} : ~IsSet(c[f])}

\* credentials that count as soon as one of the two AWS keys is set
AnyAwsKey(c) == IsSet(c.AWS_ACCESS_KEY) \/ IsSet(c.AWS_SECRET_KEY)

\* `cls.AWS_ACCESS_KEY and cls.AWS_SECRET_KEY`
AwsCredentials(c) == IsSet(c.AWS_ACCESS_KEY) /\ IsSet(c.AWS_SECRET_KEY)

\* Config.validate(): True, or the ValueError it raises
Validate(c) ==
    IF missing_fields(c) # {} THEN "ValueError"
    ELSE IF c.USE_CLOUD_STORAGE /\ ~AwsCredentials(c) /\ ~IsSet(c.GCS_BUCKET)
    THEN "ValueError"
    ELSE "True"

\* the "type" of the dictionary Config.get_storage_config() returns
StorageType(c) ==
    IF c.USE_CLOUD_STORAGE /\ IsSet(c.AWS_ACCESS_KEY) /\ IsSet(c.AWS_SECRET_KEY)
    THEN "s3"
    ELSE IF c.USE_CLOUD_STORAGE /\ IsSet(c.GCS_BUCKET)
    THEN "gcs"
    ELSE "local"

\* the class body is evaluated: the attributes are read from the environment
LoadConfig ==
    /\ settings = <<>>
    /\ \E env \in Environments :
        settings' = <<[config |-> [env EXCEPT !.USE_CLOUD_STORAGE =
                                       IsTrue(env.USE_CLOUD_STORAGE)],
                       flag |-> env.USE_CLOUD_STORAGE,
                       validate |-> "not called", storage |-> "not called"]>>
    /\ UNCHANGED <<jobs, report>>
    /\ UNCHANGED <<lifeVars, textVars, managerVars, roomVars>>

\* Config.validate() is called
validate ==
    /\ settings # <<>>
    /\ settings[1].validate = "not called"
    /\ settings' = [settings EXCEPT ![1].validate = Validate(settings[1].config)]
    /\ UNCHANGED <<jobs, report>>
    /\ UNCHANGED <<lifeVars, textVars, managerVars, roomVars>>

\* Config.get_storage_config() is called
get_storage_config ==
    /\ settings # <<>>
    /\ settings[1].storage = "not called"
    /\ settings' =
         [settings EXCEPT ![1].storage = StorageType(settings[1].config)]
    /\ UNCHANGED <<jobs, report>>
    /\ UNCHANGED <<lifeVars, textVars, managerVars, roomVars>>

\* ------------------------------------------------------ the specifications

\* a room without remote publications, whose events are not remembered
InitRoomQuiet ==
    /\ tracing = FALSE
    /\ tracks = <<>>

Init == InitLife /\ InitText /\ InitRoomQuiet

Cleanup(r) ==
    \/ TaskStart(r)
    \/ StopReturns(r)
    \/ CloseReturns(r)
    \/ RecSleepEnds(r)
    \/ PublishReturns(r)
    \/ PubSleepEnds(r)
    \/ DisconnectReturns(r)

Next ==
    \/ Construct
    \/ ConnectReturns
    \/ StartRecordingReturns
    \/ SessionStartReturns
    \/ MonitorPoll
    \/ GraceEnds
    \/ MonitorDisconnectReturns
    \/ on_data_received
    \/ on_participant_disconnected
    \/ Tick
    \/ \E r \in Runners : Cleanup(r)

\* one session, from the construction of the agent on
Spec == Init /\ [][Next]_vars

\* the event loop runs every coroutine that can run, every collaborator call
\* comes back and the clock advances; the room's events may or may not come
Fairness ==
    /\ WF_vars(Construct)
    /\ WF_vars(ConnectReturns)
    /\ WF_vars(StartRecordingReturns)
    /\ WF_vars(SessionStartReturns)
    /\ WF_vars(MonitorPoll)
    /\ WF_vars(GraceEnds)
    /\ WF_vars(MonitorDisconnectReturns)
    /\ WF_vars(Tick)
    /\ \A r \in Runners : WF_vars(Cleanup(r))

FairSpec == Spec /\ Fairness

NextText == on_transcript

\* the transcript aggregator alone, given any events
SpecText == Init /\ [][NextText]_vars

NextSession ==
    \/ _on_user_transcript
    \/ _on_item_added
    \/ TranscriptTask

\* the engine's events, the session's handlers and the tasks they create
SpecSession == Init /\ [][NextSession]_vars

InitStore ==
    /\ InitLife
    /\ transcript \in Transcripts
    /\ events = <<>>
    /\ engine = <<>>
    /\ tasks = <<>>
    /\ raw = <<>>
    /\ outcomes = <<>>
    /\ stored = <<>>
    /\ reads = <<>>
    /\ InitRoomQuiet

NextStore ==
    \/ get_full_transcript
    \/ save_formatted_transcript

\* a transcript of the aggregator, read and saved
SpecStore == InitStore /\ [][NextStore]_vars

NextManager ==
    \/ start_recording
    \/ StartEgressReturns
    \/ stop_recording
    \/ StopEgressReturns
    \/ AcloseReturns

\* one CloudRecordingManager and the calls made on it
SpecManager == Init /\ [][NextManager]_vars

\* the publications a room can hold before the agent connects
InitialTracks ==
    {<<>>} \cup {<<[at |-> "before", track |-> t, subscribed |-> u]>> :
                    t \in BOOLEAN, u \in BOOLEAN}

InitRoom ==
    /\ InitLife
    /\ InitText
    /\ tracing = TRUE
    /\ tracks \in InitialTracks

NextRoom ==
    \/ Construct
    \/ ConnectReturns
    \/ StartRecordingReturns
    \/ SessionStartReturns
    \/ on_data_received
    \/ on_participant_disconnected
    \/ on_track_published
    \/ \E r \in Runners : TaskStart(r)

\* the setup of a session and the events of its room, up to the first await
\* of the cleanup they trigger
SpecRoom == InitRoom /\ [][NextRoom]_vars

\* the setup goes on: every call start_interview awaits comes back
FairRoom ==
    /\ SpecRoom
    /\ WF_vars(Construct)
    /\ WF_vars(ConnectReturns)
    /\ WF_vars(StartRecordingReturns)
    /\ WF_vars(SessionStartReturns)

NextEntry == entrypoint

\* the jobs the worker is given, up to the start of their interview
SpecEntry == Init /\ [][NextEntry]_vars

NextReport == generate_markdown_report

\* an evaluation and the report rendered from it
SpecReport == Init /\ [][NextReport]_vars

NextConfig == LoadConfig \/ validate \/ get_storage_config

\* one set of configuration values, validated and asked for its storage
SpecConfig == Init /\ [][NextConfig]_vars

\* an event loop that runs a coroutine's next step whatever was scheduled
\* before it
AnyOrder(r) == TRUE

\* The loop runs its callbacks in the order of their scheduling.  The step
\* that takes cleanup r out of its present position was scheduled after r
\* got there (when the task was created, or when the call or the sleep it
\* awaits was over), so every on_transcript task created before r got there
\* has run.
LoopOrder(r) == \A i \in Unfinished : tasks[i].cpc[r] = cpc[r]

\* the utterances of the conversation: final, with text, of the candidate
\* and of the interviewer
Utterances ==
    {e \in EngineEvents :
        /\ e.text = <<"x">>
        /\ e.is_final
        /\ (e.source = "conversation_item_added") => (e.role = "assistant")}

NextLoop ==
    \/ Construct
    \/ ConnectReturns
    \/ StartRecordingReturns
    \/ SessionStartReturns
    \/ on_data_received
    \/ Tick
    \/ \E r \in Runners : LoopOrder(r) /\ Cleanup(r)
    \/ \E e \in Utterances :
           /\ \E i \in 1 .. Len(log) : log[i].op = "session_start"
           /\ Len(engine) < MaxUtterances
           /\ EngineEmits(e)
    \/ TranscriptTask

\* one session with its conversation, up to the monitor's first check: the
\* setup, the end signal, the cleanups, at most MaxUtterances utterances of
\* the engine and their on_transcript tasks, on one event loop
SpecLoop == Init /\ [][NextLoop]_vars

NextRaw == OnTranscriptCall

\* the transcript aggregator alone, given event objects of any shape
SpecRaw == Init /\ [][NextRaw]_vars

\* ------------------------------------------------------------------ claims

DisconnectOps == {"disconnect", "mon_disconnect"}
MonitorExpiryOps == {"closing", "closing_failed", "mon_disconnect"}
Started(r) == cpc[r] \notin {"idle", "ready"}
Over(r) == cpc[r] \in {"returned", "raised"}

\* C1: however many handle_cleanup invocations there are and however they
\* interleave, the teardown body is entered exactly once, and an invocation
\* that did not enter it makes no teardown call (stop, publish, save,
\* disconnect).
C1_BodyExactlyOnce ==
    /\ Count("body") <= 1
    /\ (\E r \in Runners : Started(r)) => Count("body") = 1
    /\ \A r \in Runners :
          CountBy(r, "body") = 0 => \A o \in TeardownOps : CountBy(r, o) = 0

\* two invocations are over: one ran the whole body, the other did nothing
C1_Witness ==
    \E r1, r2 \in Runners :
        /\ r1 # r2
        /\ cpc[r1] = "returned" /\ cpc[r2] = "returned"
        /\ CountBy(r1, "body") = 1 /\ CountBy(r1, "disconnect") = 1
        /\ CountBy(r2, "body") = 0

\* C2: no invocation of handle_cleanup raises, whatever the outcomes of the
\* recording stop, the publish, the transcript upload and the disconnect.
C2_NeverRaises == \A r \in Runners : cpc[r] # "raised"

\* C3: whatever fails among the recording stop, the publish and the
\* transcript upload, an invocation that entered the body leaves it only
\* after calling room.disconnect, and after trying to save the transcript
\* when there is an aggregator.
C3_LaterStepsRun ==
    \A r \in Runners :
        (Over(r) /\ CountBy(r, "body") = 1) =>
            /\ CountBy(r, "disconnect") = 1
            /\ transcription => CountBy(r, "save") = 1

\* the stop, the publish and the upload all failed, and the disconnect came
C3_Witness ==
    \E r \in Runners :
        /\ Over(r)
        /\ CountBy(r, "stop_failed") = 1
        /\ CountBy(r, "publish_failed") = 1
        /\ Entry(r, "save_result", "failed") \in {log[i] : i \in 1 .. Len(log)}
        /\ CountBy(r, "disconnect") = 1

\* C4: in a session that started, no room.disconnect call comes before the
\* INTERVIEW_ENDED publish.
C4_PublishBeforeDisconnect ==
    start_time # NoTime =>
        \A i \in 1 .. Len(log) :
            log[i].op \in DisconnectOps =>
                \E j \in 1 .. (i - 1) : log[j].op = "publish"

\* C5: room.disconnect is called at most once in a session.
C5_DisconnectAtMostOnce == Count("disconnect") + Count("mon_disconnect") <= 1

\* C6: once a cleanup triggered by a room event, while the monitor ran with
\* budget left, has called room.disconnect, the monitor does not go on
\* polling until the budget is used up: after a further poll it sends no
\* closing message and calls no disconnect of its own.
C6_MonitorExitsQuietly ==
    (extEarly /\ polledAfter) =>
        \A i \in 1 .. Len(log) : log[i].op \notin MonitorExpiryOps

\* C7: a session that reaches the monitor loop ends, whether or not a room
\* event comes: start_interview is left and the cleanup body has called
\* room.disconnect; start_interview returns normally unless a room.disconnect
\* it awaited raised.
C7_SessionEnds ==
    (pc = "mon_sleep") ~>
        /\ pc \in {"done", "raised"}
        /\ Count("disconnect") >= 1
        /\ (CountBy(0, "disconnect_failed") = 0
                /\ Count("mon_disconnect_failed") = 0) => pc = "done"

\* no room event came: the monitor found the budget used up, and the finally
\* clause ran the cleanup to its end
C7_Witness ==
    /\ pc = "done"
    /\ detectedAt # NoTime
    /\ \A r \in Runners : r # 0 => cpc[r] = "idle"
    /\ CountBy(0, "disconnect") = 1

\* C8: the monitor finds elapsed >= budget at the first poll at or after
\* start_time + budget, which is no later than start_time + budget + the
\* polling interval, and at no poll with elapsed < budget.
C8_DetectionWindow ==
    /\ ~missedPoll
    /\ detectedAt # NoTime =>
          /\ detectedAt - start_time >= max_duration_seconds
          /\ detectedAt <= start_time + max_duration_seconds + PollInterval

\* the budget was found used up after a late session start
C8_Witness == detectedAt # NoTime /\ start_time > 0

\* the events that count: final, with a character that is not whitespace
Counted(evs) ==
    SelectSeq(evs, LAMBDA e :
        e.is_final /\ \E i \in 1 .. Len(e.text) : e.text[i] \notin Whitespace)

\* where the maximal runs of one speaker begin in a sequence of events
RunStarts(k) ==
    {i \in 1 .. Len(k) : i = 1 \/ k[i].speaker # k[i - 1].speaker}

\* the beginning of the n-th run, and its end
RunStart(k, n) ==
    CHOOSE i \in RunStarts(k) : Cardinality({j \in RunStarts(k) : j < i}) = n - 1
RunEnd(k, n) ==
    IF n = Cardinality(RunStarts(k)) THEN Len(k) ELSE RunStart(k, n + 1) - 1

\* the texts of k[a..b] joined by single spaces
RECURSIVE Joined(_, _, _)
Joined(k, a, b) ==
    IF a = b THEN k[a].text ELSE Joined(k, a, b - 1) \o <<" ">> \o k[b].text

\* C9: the transcript has one entry per maximal run of consecutive events of
\* one speaker among the final, non-blank events, in order; an entry's text
\* is the run's texts joined by single spaces; no two adjacent entries have
\* the same speaker.
C9_OneEntryPerRun ==
    LET k == Counted(events) IN
    /\ Len(transcript) = Cardinality(RunStarts(k))
    /\ \A n \in 1 .. Len(transcript) :
          /\ transcript[n].speaker = k[RunStart(k, n)].speaker
          /\ transcript[n].text = Joined(k, RunStart(k, n), RunEnd(k, n))
    /\ \A n \in 1 .. (Len(transcript) - 1) :
          transcript[n].speaker # transcript[n + 1].speaker

\* speakers A, B, A gave three entries
C9_Witness ==
    /\ Len(events) = 3
    /\ Len(Counted(events)) = 3
    /\ events[1].speaker = events[3].speaker
    /\ events[1].speaker # events[2].speaker
    /\ Len(transcript) = 3

\* C10: an on_transcript call whose event is not final, or whose text is
\* empty or all whitespace, leaves the transcript as it was.
C10_IgnoredEventsChangeNothing ==
    [][(Len(events') = Len(events) + 1
            /\ Counted(<<events'[Len(events')]>>) = <<>>)
        => transcript' = transcript]_vars

\* a whitespace-only final event of the last entry's speaker was given, and
\* the entry's text is as before
C10_Witness ==
    /\ Len(events) = 2
    /\ events[1].is_final /\ events[1].text = <<"x">>
    /\ events[2].is_final /\ events[2].text = <<" ">>
    /\ events[2].speaker = events[1].speaker
    /\ transcript = <<[speaker |-> events[1].speaker, text |-> <<"x">>]>>

\* the transcript a sequence of events gives when on_transcript gets them one
\* at a time
RECURSIVE Recorded(_)
Recorded(evs) ==
    IF evs = <<>> THEN <<>>
    ELSE OnTranscriptResult(Recorded(SubSeq(evs, 1, Len(evs) - 1)),
                            evs[Len(evs)])

\* what the engine reported, with the finality the engine gave it: the
\* candidate's transcriptions and the assistant's items
Reported(es) ==
    [i \in 1 .. Len(es) |->
        [is_final |-> es[i].is_final /\ (es[i].source = "conversation_item_added"
                                            => es[i].role = "assistant"),
         speaker |-> IF es[i].source = "user_input_transcribed"
                     THEN "candidate_id" ELSE "AI_Interviewer",
         text |-> es[i].text]]

\* C11: once the tasks created so far have run, the session transcript is the
\* one the final utterances alone give: the text of an interim transcription
\* of the candidate is in no entry.
C11_InterimTextAbsent ==
    Unfinished = {} => transcript = Recorded(Reported(engine))

\* the orders in which n invocations can run one at a time
Orders(n) ==
    {p \in [1 .. n -> 1 .. n] : \A i, j \in 1 .. n : i # j => p[i] # p[j]}

\* C12: however the handlers' calls and the on_transcript tasks they create
\* interleave, once the tasks have run the transcript is the one that the
\* same invocations give when run one at a time in some order.
C12_SerialEquivalent ==
    Unfinished = {} =>
        \E p \in Orders(Len(tasks)) :
            transcript = Recorded([i \in 1 .. Len(tasks) |-> tasks[p[i]].ev])

\* a task of one handler was created while a task of the other had not run
\* yet; both have written an entry
C12_Witness ==
    /\ Unfinished = {}
    /\ \E i \in 2 .. Len(tasks) :
          /\ tasks[i].overlaps
          /\ tasks[i].source # tasks[i - 1].source
          /\ ~Dropped(tasks[i].ev.text) /\ ~Dropped(tasks[i - 1].ev.text)
    /\ Len(transcript) >= 2

\* C13: whatever the event object lacks or carries, the call of
\* on_transcript returns and does not raise; a call that could not process
\* its event leaves the transcript as it was.
C13_NeverRaises ==
    \A i \in 1 .. Len(outcomes) :
        /\ outcomes[i].how # "raised"
        /\ outcomes[i].how = "caught" => ~outcomes[i].changed

\* after a first entry, an event whose text is a number was given: the call
\* ended in the except clause and the entry is as before
C13_Witness ==
    /\ Len(raw) = 2
    /\ raw[1].is_final = "true" /\ raw[1].text = [kind |-> "str", val |-> <<"x">>]
    /\ raw[1].participant = "candidate_id"
    /\ raw[2].is_final = "true" /\ raw[2].text.kind = "number"
    /\ outcomes[2].how = "caught"
    /\ transcript = <<[speaker |-> "candidate_id", text |-> <<"x">>]>>

\* where the n-th block begins in the formatted transcript, counted from 0
RECURSIVE BlockOffset(_, _)
BlockOffset(tr, n) ==
    IF n = 1 THEN 0
    ELSE BlockOffset(tr, n - 1) + 5 + Len(tr[n - 1].text) + 2

\* C14: the formatted transcript that is put to the store is empty for an
\* empty transcript; otherwise it consists of one block `[label]: text` per
\* entry, in the order of the entries, and of one blank line between two
\* consecutive blocks, and of nothing else.
C14_OneBlockPerEntry ==
    \A k \in 1 .. Len(stored) :
        LET f == stored[k].body
            n == Len(transcript)
            At(i) == BlockOffset(transcript, i)
        IN  /\ n = 0 => f = <<>>
            /\ n > 0 => Len(f) = At(n) + 5 + Len(transcript[n].text)
            /\ \A i \in 1 .. n :
                  /\ f[At(i) + 1] = "["
                  /\ f[At(i) + 2] \in {"Interviewer", "Candidate"}
                  /\ f[At(i) + 2] = "Interviewer"
                        <=> transcript[i].speaker = "AI_Interviewer"
                  /\ SubSeq(f, At(i) + 3, At(i) + 5) = <<"]", ":", " ">>
                  /\ SubSeq(f, At(i) + 6, At(i) + 5 + Len(transcript[i].text))
                        = transcript[i].text
            /\ \A i \in 1 .. (n - 1) :
                  SubSeq(f, At(i + 1) - 1, At(i + 1)) = <<"\n", "\n">>

\* a transcript of two entries, the interviewer's first, was put to the store
C14_Witness ==
    /\ Len(stored) >= 1
    /\ Len(transcript) = 2
    /\ transcript[1].speaker = "AI_Interviewer"
    /\ stored[1].ok

\* C15: a call of get_full_transcript or of save_formatted_transcript leaves
\* the entries of the transcript, their order and their texts as they were,
\* whether the upload succeeds, fails or is skipped.
C15_ReadsChangeNothing ==
    [][Len(reads') = Len(reads) + 1 => transcript' = transcript]_vars

\* a transcript of two entries was read and then saved with a failing
\* upload
C15_Witness ==
    /\ Len(reads) = 2
    /\ reads[1].op = "get_full_transcript"
    /\ reads[2].op = "save_formatted_transcript"
    /\ reads[2].outcome = "failed"
    /\ Len(transcript) = 2

\* the stop_recording calls that are over
Stops == {k \in 1 .. Len(returns) : returns[k].call = "stop_recording"}

\* C16: as long as no start_recording has succeeded, every stop_recording
\* call returns None, does not raise, and no stop request has been made to
\* the backend.
C16_StopWithoutStart ==
    egress_id = NoValue =>
        /\ \A k \in Stops : returns[k].value = "None" /\ ~returns[k].sent
        /\ \A i \in 1 .. Len(requests) : requests[i] # "stop_egress"
        /\ rpc \notin {"stopping", "closing"}

\* start_recording failed, then stop_recording was called twice
C16_Witness ==
    /\ egress_id = NoValue
    /\ Len(returns) >= 3
    /\ returns[1].call = "start_recording" /\ returns[1].value = "raised"
    /\ returns[2].call = "stop_recording"
    /\ returns[3].call = "stop_recording"

\* C17: after a stop_recording call has stopped the active recording and
\* returned its egress, a further stop_recording call, with no start in
\* between, makes no stop request.
C17_StopIdempotent ==
    \A j, k \in Stops :
        (/\ j < k
         /\ returns[j].value = "egress"
         /\ \A m \in (j + 1) .. (k - 1) : returns[m].call = "stop_recording")
            => ~returns[k].sent

\* C18: when a stop_recording call has returned, the API client is closed,
\* whether there was a recording to stop or not.
C18_ClientClosedAfterStop ==
    \A k \in Stops : returns[k].value # "raised" => returns[k].closed

\* C19: when start_recording has failed, with a quota error or another one,
\* start_interview goes on: session.start is awaited next with no exception
\* under way; if it returns, start_time is set, the greeting is sent and the
\* monitor runs; start_interview is left by an exception only if a later call
\* (session.start, room.disconnect) raised.
C19_RecordingFailureNotFatal ==
    Count("start_recording_failed") = 1 =>
        /\ Count("session_start") = 1
        /\ pc = "starting_session" => ~exc
        /\ (pc # "starting_session" /\ Count("session_start_failed") = 0) =>
              /\ start_time # NoTime
              /\ Count("greeting") = 1
              /\ pc = "mon_sleep" => mwake # NoTime
        /\ (exc \/ pc = "raised") =>
              Count("session_start_failed") + Count("mon_disconnect_failed")
                  + CountBy(0, "disconnect_failed") >= 1

\* after a quota error of start_recording the session ran until the monitor
\* found the budget used up, and start_interview returned
C19_Witness ==
    /\ Entry(0, "start_recording_failed", "quota")
            \in {log[i] : i \in 1 .. Len(log)}
    /\ detectedAt # NoTime
    /\ pc = "done"

\* the save_formatted_transcript calls that can have reached put_object:
\* those that did not skip the upload
Puts ==
    Cardinality({i \in 1 .. Len(log) :
        log[i].op = "save_result" /\ log[i].arg # "skipped"})

\* a cleanup body has run to its end
BodyOver == \E r \in Runners : Over(r) /\ CountBy(r, "body") = 1

\* C20, as stated: in a session with a transcript aggregator, once the cleanup
\* body is over the formatted transcript has been put to the store exactly
\* once.
C20_WrittenExactlyOnce ==
    (transcription /\ BodyOver) => Puts = 1

\* C20, amended: in a session with a transcript aggregator the cleanup body
\* calls save_formatted_transcript exactly once, also when recording never
\* started or its stop failed; the transcript is put to the store at most
\* once, and not at all when the call skips the upload.
C20_SavedExactlyOnce ==
    /\ Count("save") <= 1
    /\ Count("save_result") = Count("save")
    /\ Puts <= Count("save")
    /\ (transcription /\ BodyOver) => Count("save") = 1
    /\ Count("save") = 1 => transcription

\* recording never started, the session ran to the timeout, and the cleanup
\* body saved the transcript once, without an egress id
C20_Witness ==
    /\ Count("start_recording_failed") = 1
    /\ BodyOver
    /\ pc = "done"
    /\ Count("save") = 1
    /\ Entry(0, "save", NoValue) \in {log[i] : i \in 1 .. Len(log)}
    /\ Entry(0, "save_result", "uploaded") \in {log[i] : i \in 1 .. Len(log)}

\* the calls of the recording stop and what is known of their outcome
StopOps == {"stop", "stop_failed", "aclose", "aclose_failed"}

\* within one cleanup the transcript is saved after the recording stop was
\* requested and is over, with the identifier the stop was requested for
C21_SaveAfterStop ==
    \A i \in 1 .. Len(log) :
        log[i].op = "save" =>
            /\ cpc[log[i].by] \notin {"stopping", "closing"}
            /\ \A j \in 1 .. Len(log) :
                  (log[j].by = log[i].by /\ log[j].op \in StopOps) => j < i
            /\ \A j \in 1 .. Len(log) :
                  (log[j].by = log[i].by /\ log[j].op = "stop") =>
                      (\E k \in (j + 1) .. (i - 1) :
                          log[k].by = log[i].by /\ log[k].op = "aclose")
                      /\ log[i].arg = log[j].arg

\* the step that saves the transcript tags it with the identifier the
\* recorder holds at that step (none without a recorder)
C21_SaveTagsRecorder ==
    \A i \in (Len(log) + 1) .. Len(log') :
        log'[i].op = "save" =>
            log'[i].arg = (IF recorder' THEN egress_id' ELSE NoValue)

\* C21: in the cleanup body the recording stop is requested, and its outcome
\* known, before the transcript is persisted, and the identifier the
\* transcript is tagged with is the one the recorder holds after the stop.
C21_StopBeforeSave == []C21_SaveAfterStop /\ [][C21_SaveTagsRecorder]_vars

\* a cleanup stopped the recording EG1, got the stopped egress back and then
\* saved the transcript under EG1
C21_Witness ==
    \E r \in Runners :
        /\ Entry(r, "stop", "EG1") \in {log[i] : i \in 1 .. Len(log)}
        /\ Entry(r, "save", "EG1") \in {log[i] : i \in 1 .. Len(log)}
        /\ Count("stop_failed") = 0
        /\ Count("aclose_failed") = 0

\* building the engine, the recorder or the aggregator failed
ConstructFailed == pc # "construct" /\ Count("connect") = 0

\* ctx.connect raised
ConnectFailed == Count("connect_failed") > 0

\* what only a session that got past the connect does
SessionOps ==
    {"start_recording", "session_start", "greeting", "closing",
     "closing_failed", "mon_disconnect"}

\* C22: when building the engine, the aggregator or the recorder fails, or
\* the connect fails, the exception leaves start_interview and no session
\* is started: no recording start, no engine session start, no greeting and
\* no duration monitor.
C22_FatalSetupPropagates ==
    (ConstructFailed \/ ConnectFailed) =>
        /\ exc
        /\ pc \in {"cleanup", "raised"}
        /\ \A i \in 1 .. Len(log) : log[i].op \notin SessionOps
        /\ start_time = NoTime
        /\ mwake = NoTime
        /\ egress_id = NoValue

\* the connect raised and the exception has left start_interview, after the
\* cleanup of the finally clause
C22_Witness ==
    /\ ConnectFailed
    /\ pc = "raised"
    /\ cpc[0] = "returned"

\* the recorder could not be built and the exception has left start_interview
C22_WitnessConstruct ==
    /\ ConstructFailed
    /\ session /\ ~recorder
    /\ pc = "raised"

\* the data messages and the departures the handlers were given
DataReceived == {i \in 1 .. Len(received) : received[i].kind = "data"}
Departures == {i \in 1 .. Len(received) : received[i].kind = "participant"}

\* C23: a data message triggers the cleanup exactly when its topic is
\* user_actions and its payload is JSON of type USER_ENDED_CALL; a message on
\* another topic, of another type or with an undecodable payload triggers
\* none, and nothing is raised out of the handler.
C23_EndSignalOnly ==
    \A i \in DataReceived :
        /\ received[i].spawned <=>
              (received[i].topic = "user_actions"
                 /\ received[i].body = "USER_ENDED_CALL")
        /\ received[i].outcome # "raised"

\* an undecodable payload arrived on user_actions: logged, no cleanup
C23_Witness ==
    \E i \in DataReceived :
        /\ received[i].topic = "user_actions"
        /\ received[i].body = "undecodable"
        /\ ~received[i].spawned
        /\ received[i].outcome = "logged"

\* the end signal arrived and the cleanup task it created has started
C23_WitnessSignal ==
    /\ \E i \in DataReceived :
          received[i].body = "USER_ENDED_CALL" /\ received[i].spawned
    /\ \E r \in 1 .. MaxTasks : cpc[r] \notin {"idle", "ready"}

\* C24: a participant_disconnected event triggers the cleanup when the
\* participant who left is the candidate of this session, and the departure
\* of any other participant triggers none.
C24_OnlyCandidateTriggers ==
    \A i \in Departures :
        received[i].spawned <=> received[i].identity = "candidate_id"

\* the INTERVIEW_ENDED messages published so far
Published == {i \in 1 .. Len(log) : log[i].op = "publish"}

\* every published message is the completion notice of this session, on
\* interview_status, and carries the url its cleanup read from the stop
C25_OneCompletionNotice ==
    /\ Cardinality(Published) <= 1
    /\ \A i \in Published :
          /\ log[i].topic = "interview_status"
          /\ log[i].payload.type = "INTERVIEW_ENDED"
          /\ log[i].payload.status = "completed"
          /\ log[i].payload.room_id = "room_id"
          /\ log[i].payload.recording_url = download_url[log[i].by]
          /\ CountBy(log[i].by, "stop") = 0 =>
                log[i].payload.recording_url = NoValue

\* when stop_recording is over, the url is the one of the first file of the
\* egress it returned, and none when it returned None, an egress without
\* files or without a url, or raised; the cleanup goes on to its sleep
C25_UrlOfFirstFile ==
    \A r \in Runners :
        (cpc[r] = "closing" /\ cpc'[r] # "closing") =>
            /\ cpc'[r] = "rec_sleep"
            /\ download_url'[r] =
                  (IF egress[r] = "with_url" /\ Len(log') = Len(log)
                   THEN "url" ELSE NoValue)

\* C25: the cleanup body publishes at most one INTERVIEW_ENDED message, on
\* interview_status, with status completed and the session's room_id; its
\* recording_url is the download url of the first file the recording stop
\* returned, and null when the stop returned nothing or no file, which is
\* not an error.
C25_InterviewEnded == []C25_OneCompletionNotice /\ [][C25_UrlOfFirstFile]_vars

\* the stop returned an egress without files, and the notice was published
\* with a null recording_url and the cleanup went on to disconnect
C25_Witness ==
    \E i \in Published :
        /\ CountBy(log[i].by, "stop") = 1
        /\ CountBy(log[i].by, "stop_failed") = 0
        /\ CountBy(log[i].by, "aclose_failed") = 0
        /\ log[i].payload.recording_url = NoValue
        /\ CountBy(log[i].by, "disconnect") = 1

\* the stop returned an egress whose first file has a download url, and the
\* notice carries it
C25_WitnessUrl ==
    \E i \in Published : log[i].payload.recording_url = "url"

\* C26: every remote track published after the room connect is eventually
\* subscribed to by the controller, a track published while the controller
\* awaits the recording start included.
C26_EveryTrackSubscribed ==
    \A i \in 1 .. (MaxTracks + 1) :
        (i \in DOMAIN tracks /\ tracks[i].at # "before")
            ~> (i \in DOMAIN tracks /\ tracks[i].subscribed)

\* the jobs for which entrypoint built an InterviewAgent
StartedJobs == {i \in 1 .. Len(jobs) : jobs[i].outcome = "started"}

\* C27: whatever the room metadata (absent, empty, without candidate_id or
\* with one), the candidate identifier entrypoint gives the session is never
\* the sentinel "unknown": a missing candidate_id is replaced by a generated
\* session identifier, and a supplied one (other than the sentinel itself)
\* is used unchanged.
C27_NeverUnknown ==
    \A i \in StartedJobs :
        /\ jobs[i].candidate_id # "unknown"
        /\ jobs[i].metadata.candidate_id = Missing =>
              jobs[i].candidate_id \in GeneratedIds
        /\ jobs[i].metadata.candidate_id \notin {Missing, "unknown"} =>
              jobs[i].candidate_id = jobs[i].metadata.candidate_id

\* a job without metadata got a generated identifier, and a job whose
\* metadata names a candidate got that one
C27_Witness ==
    /\ \E i \in StartedJobs :
          /\ jobs[i].metadata.form = "absent"
          /\ jobs[i].candidate_id \in GeneratedIds
    /\ \E i \in StartedJobs :
          /\ jobs[i].metadata.candidate_id = "cand-1"
          /\ jobs[i].candidate_id = "cand-1"

\* the recording starts the session asked for
RecordingStarts == {i \in 1 .. Len(log) : log[i].op = "start_recording"}

C29_KeyEndsWithSuffix ==
    \A i \in 1 .. Len(stored) :
        /\ Len(stored[i].key) = 6
        /\ SubSeq(stored[i].key, 1, 4) = <<"ai_interview", "/", "room_id", "/">>
        /\ stored[i].key[6] = "_transcript.txt"
        /\ stored[i].egress_id # NoValue => stored[i].key[5] = stored[i].egress_id

\* C29, amended: the transcript is persisted under
\* <namespace>/<room_id>/<recording_id>_transcript.txt when the recorder
\* holds a recording identifier, and under <namespace>/<room_id>/transcript.txt
\* when it holds none.
C29_KeyOfRecording ==
    \A i \in 1 .. Len(stored) :
        stored[i].key =
            IF stored[i].egress_id # NoValue
            THEN <<"ai_interview", "/", "room_id", "/", stored[i].egress_id,
                   "_transcript.txt">>
            ELSE <<"ai_interview", "/", "room_id", "/", "transcript.txt">>

\* a transcript was put under the key of recording EG1, and one without a
\* recording identifier under transcript.txt
C29_Witness ==
    /\ \E i \in 1 .. Len(stored) :
          stored[i].egress_id = "EG1" /\ Len(stored[i].key) = 6
    /\ \E i \in 1 .. Len(stored) :
          stored[i].egress_id = NoValue /\ Len(stored[i].key) = 5

\* the order the spec fixes; the overview is the first two headings
SectionOrder ==
    <<"Candidate Information", "Overall Assessment", "Detailed Scores",
      "Strengths", "Areas for Improvement", "Key Observations",
      "Standout Moments", "Concerns", "Detailed Feedback", "Next Steps">>

IsHeading(line) == Len(line) = 2 /\ line[1] = "## "

\* the names of the sections of a report, as they come
Headings(lines) ==
    LET hs == SelectSeq(lines, IsHeading)
    IN  [i \in 1 .. Len(hs) |-> hs[i][2]]

\* SectionOrder without the sections that are not in names
OrderOf(names) ==
    LET Rendered(n) == \E i \in 1 .. Len(names) : names[i] = n
    IN  SelectSeq(SectionOrder, Rendered)

\* C30: for every evaluation the sections of the rendered report come in
\* the order overview, detailed scores, strengths, improvement areas,
\* observations, standout moments, concerns, narrative feedback, next steps;
\* the sections that are rendered keep this relative order whatever fields
\* the evaluation has.
C30_FixedSectionOrder ==
    \A i \in 1 .. Len(report) :
        LET names == Headings(report[i].lines)
            e == report[i].evaluation
        IN  /\ names = OrderOf(names)
            /\ \A k \in 1 .. Len(SectionOrder) :
                  (\E j \in 1 .. Len(names) : names[j] = SectionOrder[k])
                      <=> \/ SectionOrder[k] \notin {"Standout Moments", "Concerns"}
                          \/ SectionOrder[k] = "Standout Moments"
                                /\ e.standout_moments.items # <<>>
                          \/ SectionOrder[k] = "Concerns"
                                /\ e.concerns.items # <<>>

\* an evaluation with concerns and without standout moments was rendered:
\* nine sections, Concerns between Key Observations and Detailed Feedback
C30_Witness ==
    \E i \in 1 .. Len(report) :
        /\ report[i].evaluation.concerns.items = <<"item">>
        /\ ~report[i].evaluation.standout_moments.given
        /\ Len(Headings(report[i].lines)) = 9
        /\ Headings(report[i].lines)[7] = "Concerns"

\* the positions of the calls of one kind in the log
Calls(o) == {i \in 1 .. Len(log) : log[i].op = o}

\* every call of kind a in the log has a call of kind b before it
Follows(a, b) == \A i \in Calls(a) : \E j \in Calls(b) : j < i

\* the setup as the log and the attributes show it
C31_SetupInOrder ==
    /\ Follows("session_start", "start_recording")
    /\ Follows("greeting", "session_start")
    /\ \A o \in MonitorExpiryOps : Follows(o, "greeting")
    /\ pc \in {"construct", "connecting", "starting_rec", "starting_session"}
          => start_time = NoTime
    /\ start_time # NoTime =>
          Calls("session_start") # {} /\ Calls("session_start_failed") = {}
    /\ Calls("greeting") # {} => start_time # NoTime
    /\ pc \in {"mon_sleep", "mon_grace", "mon_disc"} => Calls("greeting") # {}

\* a duration check is a step of the monitor whose sleep(30) is over; it
\* finds the greeting sent and start_time set
C31_CheckAfterGreeting ==
    (pc = "mon_sleep" /\ now = mwake /\ mwake' # mwake) =>
        Calls("greeting") # {} /\ start_time # NoTime

\* C31: the setup steps come in a fixed order: the recording start attempt
\* before the engine session start, start_time unset as long as the session
\* start has not succeeded, the greeting only once start_time is set, and
\* the first duration check only after the greeting.
C31_SetupOrder == []C31_SetupInOrder /\ [][C31_CheckAfterGreeting]_vars

\* the session started, greeted, and the monitor has made a check
C31_Witness ==
    /\ Calls("greeting") # {}
    /\ start_time # NoTime
    /\ pc = "mon_sleep"
    /\ mwake > start_time + PollInterval

\* every failed recording start is followed at once by the warning and then
\* by the engine session start, and leaves no recording identifier
C32_WarningInLog ==
    \A i \in Calls("start_recording_failed") :
        /\ Len(log) >= i + 2
        /\ log[i + 1].op = "warning"
        /\ log[i + 2].op = "session_start"
        /\ \A j \in Calls("session_start") : j > i + 1
        /\ Calls("greeting") # {} => egress_id = NoValue

\* the step in which the recording start fails moves start_interview to the
\* session start and changes nothing else
C32_NothingElseChanges ==
    (Calls("start_recording_failed") = {}
       /\ \E i \in 1 .. Len(log') : log'[i].op = "start_recording_failed")
    => /\ pc = "starting_rec" /\ pc' = "starting_session"
       /\ UNCHANGED <<now, exc, start_time, recorder, transcription, session,
                       egress_id, is_cleaning_up, mwake, connected,
                       local_participant, handlers, cpc, cwake, egress,
                       download_url>>

\* C32: whenever the recording start fails, a warning assistant message is
\* appended to the engine's conversation history before the engine session
\* is started, and nothing else about the session's progress changes.
C32_WarningBeforeSession == []C32_WarningInLog /\ [][C32_NothingElseChanges]_vars

\* the recording start failed for another reason than the quota, the warning
\* was added and the session started and greeted
C32_Witness ==
    /\ Entry(0, "start_recording_failed", "error")
          \in {log[i] : i \in 1 .. Len(log)}
    /\ Calls("warning") # {}
    /\ Calls("greeting") # {}

\* the closing message was attempted, with or without success
ClosingAttempted == Calls("closing") \cup Calls("closing_failed")

\* the monitor asks for the disconnect only after it attempted the closing
\* message, and a closing message that raised is followed at once by the
\* request
C33_ClosingFirst ==
    /\ \A i \in Calls("mon_disconnect") \cup Calls("mon_disconnect_failed") :
          \E j \in ClosingAttempted : j < i
    /\ \A i \in Calls("closing_failed") :
          Len(log) > i /\ log[i + 1].op = "mon_disconnect"
    /\ (detectedAt # NoTime) <=> (ClosingAttempted # {})
    /\ Cardinality(ClosingAttempted) <= 1

\* once the closing message was attempted the monitor requests the
\* disconnect and the cleanup of the finally clause is over
C33_TerminationFollows ==
    (ClosingAttempted # {}) ~>
        /\ Calls("mon_disconnect") # {}
        /\ cpc[0] \in {"returned", "raised"}
        /\ pc \in {"done", "raised"}

\* C33: when the monitor finds elapsed >= budget it attempts the closing
\* message first and requests termination afterwards; a failure while
\* emitting the closing message does not prevent the termination: the room
\* disconnect and the cleanup still follow.
C33_ClosingThenTermination == []C33_ClosingFirst /\ C33_TerminationFollows

\* the closing message raised, the monitor disconnected the room all the
\* same and the cleanup body of the finally clause ran to its end
C33_Witness ==
    /\ Calls("closing_failed") # {}
    /\ Calls("mon_disconnect") # {}
    /\ Calls("mon_disconnect_failed") = {}
    /\ CountBy(0, "body") = 1
    /\ pc = "done"

\* the start_recording calls that ended with an exception
FailedStarts ==
    {k \in 1 .. Len(returns) :
        returns[k].call = "start_recording" /\ returns[k].value = "raised"}

\* no start_recording call before call k started a recording
NoneStartedBefore(k) ==
    \A j \in 1 .. (k - 1) :
        ~(returns[j].call = "start_recording" /\ returns[j].value = "egress")

\* C34: when start_recording fails, for a quota error and for any other
\* alike, the manager holds no recording handle afterwards (egress_id stays
\* unset), the error is raised to the caller, and a later stop_recording is
\* the no-op of a manager without active recording.
C34_FailedStartHoldsNothing ==
    \A k \in FailedStarts :
        /\ returns[k].error \in {"quota", "error"}
        /\ returns[k].held = (IF k = 1 THEN NoValue ELSE returns[k - 1].held)
        /\ NoneStartedBefore(k) => returns[k].held = NoValue
        /\ (NoneStartedBefore(k) /\ Len(returns) > k
               /\ returns[k + 1].call = "stop_recording")
             => /\ returns[k + 1].value = "None"
                /\ ~returns[k + 1].sent
                /\ returns[k + 1].held = NoValue

\* the start hit the quota, the error was raised, and the stop that followed
\* returned None without a request
C34_Witness ==
    /\ Len(returns) >= 2
    /\ 1 \in FailedStarts
    /\ returns[1].error = "quota"
    /\ returns[2].call = "stop_recording"
    /\ returns[2].value = "None"
    /\ requests = <<"start_egress">>

\* start_interview is left and no cleanup is pending or in progress
SessionOver ==
    /\ pc \in {"done", "raised"}
    /\ \A r \in Runners : cpc[r] \in {"idle", "returned", "raised"}

\* C35: every recording that start_recording started has been sent a stop
\* request when the session is over, in every interleaving, also when an end
\* signal or the candidate's departure triggers the cleanup while the start
\* request is in flight.
C35_StartedRecordingStopped ==
    (SessionOver /\ egress_id # NoValue) =>
        Entry(0, "stop", egress_id) \in {log[i] : i \in 1 .. Len(log)}
        \/ \E r \in 1 .. MaxTasks :
              Entry(r, "stop", egress_id) \in {log[i] : i \in 1 .. Len(log)}

\* what starts a session: the calls, the start timestamp, the monitor
StartingOps == {"start_recording", "session_start", "greeting"}

\* a step taken with the guard set starts nothing
NoStartAfterGuardStep ==
    is_cleaning_up =>
        /\ \A i \in (Len(log) + 1) .. Len(log') : log'[i].op \notin StartingOps
        /\ start_time' = start_time
        /\ (pc' = "mon_sleep") => (pc = "mon_sleep")

\* C36: once the cleanup guard is set the controller performs no further
\* session-starting step: it does not start a recording, start the engine
\* session, set start_time, send the greeting or enter the duration monitor.
C36_NoStartAfterGuard == [][NoStartAfterGuardStep]_vars

\* the cleanup body is in progress in a task a handler spawned
BodyInProgress ==
    \E r \in 1 .. MaxTasks :
        cpc[r] \notin {"idle", "ready", "returned", "raised"}

\* C37: when start_interview returns control to its caller, normally or by
\* exception, the cleanup body has run to its end (recording stop attempted,
\* notification attempted, transcript persisted, room disconnect requested);
\* it is never still in progress in a task spawned by a handler.
C37_CleanupOverAtReturn ==
    pc \in {"done", "raised"} => (BodyOver /\ ~BodyInProgress)

\* the event objects the handlers make of the engine's events, in the order
\* of emission; an event without text, and an item of the user, make none
RECURSIVE Forwarded(_)
Forwarded(es) ==
    IF es = <<>> THEN <<>>
    ELSE LET rest == Forwarded(SubSeq(es, 1, Len(es) - 1))
             e == es[Len(es)]
         IN  IF HandlerSpawns(e) THEN Append(rest, HandlerEvent(e)) ELSE rest

\* C39: the transcript lists the utterances in the order in which the
\* engine emitted their events: forwarding each event through a task of its
\* own never reorders two utterances, so the coalescing is applied to the
\* emitted sequence.
C39_EmissionOrderKept ==
    /\ [i \in 1 .. Len(tasks) |-> tasks[i].ev] = Forwarded(engine)
    /\ Len(events) <= Len(tasks)
    /\ events = SubSeq(Forwarded(engine), 1, Len(events))
    /\ transcript = Recorded(events)

\* the candidate and then the interviewer spoke, two tasks were pending
\* together, and the transcript holds the candidate's entry first
C39_Witness ==
    /\ Len(tasks) >= 2
    /\ tasks[1].ev.speaker = "candidate_id"
    /\ tasks[2].ev.speaker = "AI_Interviewer"
    /\ tasks[2].overlaps
    /\ Unfinished = {}
    /\ Len(transcript) = 2
    /\ transcript[1].speaker = "candidate_id"
    /\ transcript[2].speaker = "AI_Interviewer"

\* the tasks created before any cleanup had set the guard, that is before
\* the cleanup body began
EarlierTasks == {i \in 1 .. Len(tasks) : ~tasks[i].cleaning}

\* every task created before the body began has run, and the transcript is
\* what on_transcript makes of the utterances forwarded so far, in order
EarlierUtterancesRecorded ==
    /\ \A i \in EarlierTasks : tasks[i].at = "done" /\ i <= Len(events)
    /\ events = SubSeq(Forwarded(engine), 1, Len(events))
    /\ transcript = Recorded(events)
    /\ \A i \in EarlierTasks :
           \E k \in 1 .. Len(transcript) :
              /\ transcript[k].speaker = tasks[i].ev.speaker
              /\ transcript[k].text # <<>>

\* a step in which a cleanup calls save_formatted_transcript
SaveStep == Calls("save")' # Calls("save")

\* C38: when a cleanup saves the transcript, the transcript holds every
\* final utterance with text whose event reached the controller before the
\* cleanup body began: the on_transcript task of each such event has run
\* before the save, so none of them is missing from what is persisted.
C38_EarlierUtterancesSaved ==
    [][SaveStep => EarlierUtterancesRecorded]_vars

\* an utterance arrived after the end signal had scheduled a cleanup and
\* before that cleanup began; the cleanup has saved the transcript, which
\* holds the utterance
C38_Witness ==
    /\ Calls("save") # {}
    /\ \E i \in EarlierTasks :
          /\ tasks[i].cpc[1] = "ready"
          /\ tasks[i].at = "done"
    /\ Len(transcript) = 1

\* the Config that was loaded
Loaded == settings[1].config

\* C40: whatever the configuration values, when Config.validate returned
\* True with USE_CLOUD_STORAGE enabled, Config.get_storage_config returns
\* the type s3 or gcs and never local; and validate raises ValueError
\* whenever one of GOOGLE_API_KEY, LIVEKIT_URL, LIVEKIT_API_KEY and
\* LIVEKIT_API_SECRET is empty.
C40_ValidatedCloudIsCloud ==
    settings # <<>> =>
        /\ (/\ settings[1].validate = "True"
            /\ Loaded.USE_CLOUD_STORAGE
            /\ settings[1].storage # "not called")
           => settings[1].storage \in {"s3", "gcs"}
        /\ (/\ settings[1].validate # "not called"
            /\ \E f \in {"GOOGLE_API_KEY", "LIVEKIT_URL", "LIVEKIT_API_KEY",
                          "LIVEKIT_API_SECRET"} : Loaded[f] = "")
           => settings[1].validate = "ValueError"

\* cloud storage is enabled with one AWS key only and a GCS bucket:
\* validate returned True and the storage is of type gcs
C40_Witness ==
    /\ settings # <<>>
    /\ Loaded.USE_CLOUD_STORAGE
    /\ Loaded.AWS_ACCESS_KEY = "set" /\ Loaded.AWS_SECRET_KEY = ""
    /\ settings[1].validate = "True"
    /\ settings[1].storage = "gcs"

====
